---- MODULE Spec2Model ----
(***************************************************************************)
(* A model of the action signing subsystem of hl-rs: the canonical         *)
(* (MessagePack + metadata) hash of L1 actions, the EIP-712 struct hash of *)
(* user-signed actions generated by the derive macros, the multi-sig       *)
(* variants, and the Built -> Prepared -> Signed -> wire lifecycle of      *)
(* action_v2.                                                              *)
(*                                                                         *)
(* Byte strings are sequences of integers 0..255.  keccak256 is modelled   *)
(* as a collision-free digest: the digest of a byte string is the byte     *)
(* string itself between the two markers -1 and -2, so that digests can be *)
(* embedded in further byte strings and two digests are equal exactly when *)
(* their preimages are.                                                    *)
(***************************************************************************)
EXTENDS Integers, Sequences, FiniteSets, TLC

VARIABLES
    \* ---- hashing harness (SpecHash): inputs and the last results
    hAction,      \* the action value handed to the hash functions
    hMeta,        \* the SigningMeta handed to the hash functions
    hUser,        \* payload_multi_sig_user
    hOuter,       \* outer_signer
    hClock,       \* the wall clock (never read by the hash functions)
    hOut,         \* the result of the last call, with the inputs it was given
    msPrev,       \* the previous multisig_signing_hash result for these inputs
    msLast,       \* the last multisig_signing_hash result for these inputs
    \* ---- build_multisig_types harness (SpecTypes)
    tIn,          \* a full type preimage, as tokens
    tOut,         \* what build_multisig_types returned for it
    \* ---- the action lifecycle (Spec)
    cfg,          \* the client: vault_address, expires_after, signing_chain
    built,        \* the caller-built action (Built), or None
    preparedAction, \* the PreparedAction, or None
    signedAction, \* the SignedAction made by sign or with_signature, or None
    origin,       \* how signedAction was made: the call, its wallet, what it consumed
    wireJson,     \* wire JSON: serialized from signedAction, or received from outside
    foreign,      \* a SignedAction decoded by from_json or constructed directly
    ledger,       \* the (wallet, digest) pairs signed so far
    pinned,       \* the nonce the first with_nonce gave the action, or None
    preparedEver, \* whether prepare_action has produced a PreparedAction
    \* ---- submission to the exchange (SpecSend)
    lClient,      \* the ExchangeClient: vault_address, expires_after, is_mainnet
    lAction,      \* the exchange::Action made by BuildAction::build, or None
    lSigned,      \* the exchange::SignedAction made by Action::sign, or None
    lLedger,      \* the (wallet, digest) pairs signed so far
    sent,         \* the last submission: who sent, the body posted, the result
    \* ---- callers of prepare_action side by side (SpecNonce)
    pcT,          \* where each caller is: idle, hashing (clock read), done
    issued,       \* the nonces obtained, in the order the clock was read
    results       \* the PreparedAction each caller got, or None

hashVars == <<hAction, hMeta, hUser, hOuter, hClock, hOut, msPrev, msLast>>

typeVars == <<tIn, tOut>>

lifeVars == <<cfg, built, preparedAction, signedAction, origin, wireJson, foreign, ledger, pinned, preparedEver>>

sendVars == <<lClient, lAction, lSigned, lLedger, sent>>

vars == <<hAction, hMeta, hUser, hOuter, hClock, hOut, msPrev, msLast, tIn, tOut,
          cfg, built, preparedAction, signedAction, origin, wireJson, foreign, ledger, pinned, preparedEver,
          lClient, lAction, lSigned, lLedger, sent, pcT, issued, results>>

nonceVars == <<pcT, issued, results>>

----------------------------------------------------------------------------
\* Bounds of the model.

\* Nonces, expiries and clock readings range over 1..MaxNonce.
MaxNonce == 2
\* The caps list of SetOpenInterestCaps holds at most MaxCaps entries.
MaxCaps == 2
\* Type preimages handed to build_multisig_types have 1..MaxParams parameters.
MaxParams == 3
\* prepare_action is called by MaxCalls callers side by side.
MaxCalls == 3

----------------------------------------------------------------------------
\* Option<T>: None is the empty sequence, Some(x) the one-element sequence.

None == <<>>
Some(x) == <<x>>
IsSome(o) == Len(o) = 1
Unwrap(o) == o[1]

----------------------------------------------------------------------------
\* Bytes, text and the digest.

\* str::as_bytes for the strings the program uses.
Ascii(s) ==
    CASE s = "usingBigBlocks" -> <<117,115,105,110,103,66,105,103,66,108,111,99,107,115>>
      [] s = "Mainnet" -> <<77,97,105,110,110,101,116>>
      [] s = "Testnet" -> <<84,101,115,116,110,101,116>>
      [] s = "Exchange" -> <<69,120,99,104,97,110,103,101>>
      [] s = "1" -> <<49>>
      [] s = "HyperliquidSignTransaction" -> <<72,121,112,101,114,108,105,113,117,105,100,83,105,103,110,84,114,97,110,115,97,99,116,105,111,110>>
      [] s = "Agent(string source,bytes32 connectionId)" -> <<65,103,101,110,116,40,115,116,114,105,110,103,32,115,111,117,114,99,101,44,98,121,116,101,115,51,50,32,99,111,110,110,101,99,116,105,111,110,73,100,41>>
      [] s = "EIP712Domain(string name,string version,uint256 chainId,address verifyingContract)" -> <<69,73,80,55,49,50,68,111,109,97,105,110,40,115,116,114,105,110,103,32,110,97,109,101,44,115,116,114,105,110,103,32,118,101,114,115,105,111,110,44,117,105,110,116,50,53,54,32,99,104,97,105,110,73,100,44,97,100,100,114,101,115,115,32,118,101,114,105,102,121,105,110,103,67,111,110,116,114,97,99,116,41>>
      [] s = "string" -> <<115,116,114,105,110,103>>
      [] s = "address" -> <<97,100,100,114,101,115,115>>
      [] s = "uint64" -> <<117,105,110,116,54,52>>
      [] s = "hyperliquidChain" -> <<104,121,112,101,114,108,105,113,117,105,100,67,104,97,105,110>>
      [] s = "destination" -> <<100,101,115,116,105,110,97,116,105,111,110>>
      [] s = "amount" -> <<97,109,111,117,110,116>>
      [] s = "time" -> <<116,105,109,101>>
      [] s = "nonce" -> <<110,111,110,99,101>>
      [] s = "payloadMultiSigUser" -> <<112,97,121,108,111,97,100,77,117,108,116,105,83,105,103,85,115,101,114>>
      [] s = "outerSigner" -> <<111,117,116,101,114,83,105,103,110,101,114>>
      [] s = "HyperliquidTransaction" -> <<72,121,112,101,114,108,105,113,117,105,100,84,114,97,110,115,97,99,116,105,111,110>>
      [] s = "UsdSend" -> <<85,115,100,83,101,110,100>>
      [] s = "SendAsset" -> <<83,101,110,100,65,115,115,101,116>>
      [] s = "Other" -> <<79,116,104,101,114>>
      [] s = ":" -> <<58>>
      [] s = "(" -> <<40>>
      [] s = ")" -> <<41>>
      [] s = "," -> <<44>>
      [] s = " " -> <<32>>
      [] s = "type" -> <<116,121,112,101>>
      [] s = "perpDeploy" -> <<112,101,114,112,68,101,112,108,111,121>>
      [] s = "evmUserModify" -> <<101,118,109,85,115,101,114,77,111,100,105,102,121>>
      [] s = "setOpenInterestCaps" -> <<115,101,116,79,112,101,110,73,110,116,101,114,101,115,116,67,97,112,115>>
      [] s = "usdSend" -> <<117,115,100,83,101,110,100>>
      [] s = "BTC" -> <<66,84,67>>
      [] s = "ETH" -> <<69,84,72>>
      [] s = "0x" -> <<48,120>>
      [] s = "." -> <<46>>
      [] s = "memo" -> <<109,101,109,111>>
      [] s = "count" -> <<99,111,117,110,116>>
      [] s = "uint32" -> <<117,105,110,116,51,50>>
      [] s = "Probe" -> <<80,114,111,98,101>>
      [] s = "hello" -> <<104,101,108,108,111>>
      [] s = "0x66eee" -> <<48,120,54,54,101,101,101>>
      [] s = "0xa4b1" -> <<48,120,97,52,98,49>>
      [] s = "Withdraw3" -> <<87,105,116,104,100,114,97,119,51>>
      [] s = "SpotSend" -> <<83,112,111,116,83,101,110,100>>
      [] s = "SendAsset" -> <<83,101,110,100,65,115,115,101,116>>
      [] s = "ApproveAgent" -> <<65,112,112,114,111,118,101,65,103,101,110,116>>
      [] s = "ApproveBuilderFee" -> <<65,112,112,114,111,118,101,66,117,105,108,100,101,114,70,101,101>>
      [] s = "insufficient staked HYPE" -> <<105,110,115,117,102,102,105,99,105,101,110,116,32,115,116,97,107,101,100,32,72,89,80,69>>
      [] s = "insufficient staked" -> <<105,110,115,117,102,102,105,99,105,101,110,116,32,115,116,97,107,101,100>>
      [] s = "Insufficient staked HYPE" -> <<73,110,115,117,102,102,105,99,105,101,110,116,32,115,116,97,107,101,100,32,72,89,80,69>>
      [] s = "not enough: insufficient staked HYPE for dex" -> <<110,111,116,32,101,110,111,117,103,104,58,32,105,110,115,117,102,102,105,99,105,101,110,116,32,115,116,97,107,101,100,32,72,89,80,69,32,102,111,114,32,100,101,120>>
      [] s = "Must deposit before performing actions" -> <<77,117,115,116,32,100,101,112,111,115,105,116,32,98,101,102,111,114,101,32,112,101,114,102,111,114,109,105,110,103,32,97,99,116,105,111,110,115>>

\* u64::to_be_bytes and friends: n as k big-endian bytes.
RECURSIVE ToBeBytes(_, _)
ToBeBytes(n, k) ==
    IF k = 0 THEN <<>> ELSE ToBeBytes(n \div 256, k - 1) \o <<n % 256>>

\* keccak256 as a collision-free digest of its preimage.
Keccak256(bytes) == <<-1>> \o bytes \o <<-2>>

\* Address::repeat_byte(b): the 20 raw bytes of an address.
RepeatByte(b) == [i \in 1..20 |-> b]

\* Address::ZERO.
AddressZero == RepeatByte(0)

\* One byte as two hexadecimal digits, letters in the given case.
HexDigit(d, upper) ==
    IF d < 10 THEN 48 + d ELSE IF upper THEN 55 + d ELSE 87 + d

RECURSIVE HexOfBytes(_, _)
HexOfBytes(bytes, upper) ==
    IF bytes = <<>> THEN <<>>
    ELSE <<HexDigit(Head(bytes) \div 16, upper), HexDigit(Head(bytes) % 16, upper)>>
         \o HexOfBytes(Tail(bytes), upper)

\* Address::to_string: "0x" and the 40 hexadecimal digits in checksum case
\* (the checksum case is abstracted: every letter digit is upper case).
AddressToString(addr) == Ascii("0x") \o HexOfBytes(addr, TRUE)

\* str::to_lowercase on ASCII text.
ToLowercase(text) ==
    [i \in 1..Len(text) |-> IF text[i] >= 65 /\ text[i] <= 90 THEN text[i] + 32 ELSE text[i]]

----------------------------------------------------------------------------
\* MessagePack (rmp_serde::to_vec_named) of the values the actions hold.

MpStr(text) ==
    IF Len(text) <= 31 THEN <<160 + Len(text)>> \o text
    ELSE <<217, Len(text)>> \o text

MpUint(n) ==
    IF n < 128 THEN <<n>>
    ELSE IF n < 256 THEN <<204, n>>
    ELSE IF n < 65536 THEN <<205>> \o ToBeBytes(n, 2)
    ELSE <<206>> \o ToBeBytes(n, 4)

MpBool(b) == <<IF b THEN 195 ELSE 194>>

MpArrayHeader(n) == <<144 + n>>

MpMapHeader(n) == <<128 + n>>

----------------------------------------------------------------------------
\* The v2 action types (action_v2_impls.rs, perp_deploy_v2.rs).  One record
\* shape holds every type; the fields a type does not have keep a default.

L1Types == {"ToggleBigBlocks", "SetOpenInterestCaps"}

\* #[action(action_type = ...)], or the lower camel case struct name.
ActionType(ty) ==
    CASE ty = "ToggleBigBlocks" -> "evmUserModify"
      [] ty = "SetOpenInterestCaps" -> "perpDeploy"
      [] ty = "UsdSend" -> "usdSend"
      [] OTHER -> "other"

\* L1Action::EXCLUDE_VAULT_FROM_HASH: the trait's default; the derive sets
\* ACTION_TYPE only and no action type overrides the constant.
ExcludeVaultFromHash(ty) == FALSE

\* Ord for String: lexicographic on the bytes.
RECURSIVE StrLess(_, _)
StrLess(a, b) ==
    IF b = <<>> THEN FALSE
    ELSE IF a = <<>> THEN TRUE
    ELSE IF Head(a) # Head(b) THEN Head(a) < Head(b)
    ELSE StrLess(Tail(a), Tail(b))

\* Ord for (String, u64): a.cmp(b) is not Greater.
CapLeq(a, b) == StrLess(a[1], b[1]) \/ (a[1] = b[1] /\ a[2] <= b[2])

RECURSIVE InsertSorted(_, _)
InsertSorted(x, sorted) ==
    IF sorted = <<>> THEN <<x>>
    ELSE IF CapLeq(x, Head(sorted)) THEN <<x>> \o sorted
    ELSE <<Head(sorted)>> \o InsertSorted(x, Tail(sorted))

\* flatten_vec! without the sort: the list is written in the order held.
SortCapsInHeldOrder(caps) == caps

\* data.sort_by(|a, b| a.cmp(b)) of flatten_vec!.
RECURSIVE SortCaps(_)
SortCaps(caps) ==
    IF caps = <<>> THEN <<>>
    ELSE InsertSorted(Head(caps), SortCaps(Tail(caps)))

RECURSIVE MpCapEntries(_)
MpCapEntries(caps) ==
    IF caps = <<>> THEN <<>>
    ELSE MpArrayHeader(2) \o MpStr(Head(caps)[1]) \o MpUint(Head(caps)[2])
         \o MpCapEntries(Tail(caps))

\* Serialize for SetOpenInterestCaps (flatten_vec!): the sorted list of
\* [coin, cap] pairs, and nothing else.
MpCaps(caps) == MpArrayHeader(Len(caps)) \o MpCapEntries(SortCaps(caps))

\* Serialize of an L1 action, as rmp_serde::to_vec_named writes it.
\* ToggleBigBlocks: a one-entry map (nonce is skip_serializing).
MpAction(action) ==
    IF action.ty = "SetOpenInterestCaps" THEN MpCaps(action.caps)
    ELSE MpMapHeader(1) \o MpStr(Ascii("usingBigBlocks")) \o MpBool(action.using_big_blocks)

\* rmp_serde::to_vec_named of what compute_l1_hash is given: the action, or
\* the multi-sig envelope (user, outer, action), a 3-tuple.
RmpToVecNamed(value) ==
    IF value.ty = "Envelope"
    THEN MpArrayHeader(3) \o MpStr(value.user) \o MpStr(value.outer) \o MpAction(value.action)
    ELSE MpAction(value)

\* compute_l1_hash, with the expiry marker written as a presence flag 0x01.
ComputeL1HashExpiryFlagOne(value, nonce, vault_address, expires_after) ==
    Keccak256(
        RmpToVecNamed(value) \o ToBeBytes(nonce, 8)
        \o (IF IsSome(vault_address) THEN <<1>> \o Unwrap(vault_address) ELSE <<0>>)
        \o (IF IsSome(expires_after) THEN <<1>> \o ToBeBytes(Unwrap(expires_after), 8) ELSE <<>>))

\* compute_l1_hash
ComputeL1Hash(value, nonce, vault_address, expires_after) ==
    Keccak256(
        RmpToVecNamed(value) \o ToBeBytes(nonce, 8)
        \o (IF IsSome(vault_address) THEN <<1>> \o Unwrap(vault_address) ELSE <<0>>)
        \o (IF IsSome(expires_after) THEN <<0>> \o ToBeBytes(Unwrap(expires_after), 8) ELSE <<>>))

----------------------------------------------------------------------------
\* EIP-712 domains and the final digest.

AgentChainId == 1337

\* abi encoding of an address as one 32-byte word.
AbiAddress(addr) == [i \in 1..12 |-> 0] \o addr

\* Eip712Domain::hash_struct for a domain with name, version, chainId and
\* verifyingContract = Address::ZERO.
DomainHash(name, version, chain_id) ==
    Keccak256(
        Keccak256(Ascii("EIP712Domain(string name,string version,uint256 chainId,address verifyingContract)"))
        \o Keccak256(Ascii(name)) \o Keccak256(Ascii(version))
        \o ToBeBytes(chain_id, 32) \o AbiAddress(AddressZero))

\* The 66-byte prehash 0x19 0x01 || domain hash || struct hash, hashed.
Eip712Digest(domain_hash, struct_hash) ==
    Keccak256(<<25, 1>> \o domain_hash \o struct_hash)

\* SigningChain::get_source: the source string of the Agent struct, the
\* chain's name (the SigningChain type is not among the sources at hand).
GetSource(chain) == Ascii(chain)

\* SigningChain::get_hyperliquid_chain: the chain's name, "Mainnet" or
\* "Testnet" (as get_source).
GetHyperliquidChain(chain) == Ascii(chain)

\* SigningChain::signature_chain_id
SignatureChainId(chain) == IF chain = "Mainnet" THEN 42161 ELSE 421614

\* agent_signing_hash: Agent { source, connectionId } under the Exchange domain.
AgentSigningHash(connection_id, source) ==
    Eip712Digest(
        DomainHash("Exchange", "1", AgentChainId),
        Keccak256(Keccak256(Ascii("Agent(string source,bytes32 connectionId)"))
                  \o Keccak256(source) \o connection_id))

\* Results of the fallible hash functions: Ok(digest), or a panic.
Ok(digest) == [tag |-> "Ok", val |-> digest]
Panic == [tag |-> "Panic", val |-> <<>>]

\* Action::signing_hash as the L1Action derive generates it.
L1SigningHash(action, meta) ==
    LET vault_for_hash ==
            IF ExcludeVaultFromHash(action.ty) THEN None ELSE meta.vault_address
        connection_id ==
            ComputeL1Hash(action, meta.nonce, vault_for_hash, meta.expires_after)
    IN  Ok(AgentSigningHash(connection_id, GetSource(meta.signing_chain)))

\* The multi-sig envelope reduced to the action alone.
EnvelopeDropped(action, payload_multi_sig_user, outer_signer) == action

\* The multi-sig envelope: the two addresses as lower-case text, and the action.
Envelope(action, payload_multi_sig_user, outer_signer) ==
    [ty |-> "Envelope",
     user |-> ToLowercase(AddressToString(payload_multi_sig_user)),
     outer |-> ToLowercase(AddressToString(outer_signer)),
     action |-> action]

\* Action::multisig_signing_hash as the L1Action derive generates it.
L1MultisigSigningHash(action, meta, payload_multi_sig_user, outer_signer) ==
    LET vault_for_hash ==
            IF ExcludeVaultFromHash(action.ty) THEN None ELSE meta.vault_address
        connection_id ==
            ComputeL1Hash(Envelope(action, payload_multi_sig_user, outer_signer),
                          meta.nonce, vault_for_hash, meta.expires_after)
    IN  Ok(AgentSigningHash(connection_id, GetSource(meta.signing_chain)))

----------------------------------------------------------------------------
\* The older ActionKind path (action_kind.rs, builder.rs), for the kind
\* PerpDeploy(SetOpenInterestCaps { caps }).

\* Serialize for ActionKind::PerpDeploy, as rmp_serde::to_vec_named writes
\* it: a struct of "type" and the payload under the variant's key.
MpActionKind(k) ==
    MpMapHeader(2) \o MpStr(Ascii("type")) \o MpStr(Ascii("perpDeploy"))
    \o MpStr(Ascii("setOpenInterestCaps")) \o MpCaps(k.caps)

\* ActionKind::hash
ActionKindHash(k, timestamp, vault_address, expires_after) ==
    Keccak256(
        MpActionKind(k) \o ToBeBytes(timestamp, 8)
        \o (IF IsSome(vault_address) THEN <<1>> \o Unwrap(vault_address) ELSE <<0>>)
        \o (IF IsSome(expires_after) THEN <<0>> \o ToBeBytes(Unwrap(expires_after), 8) ELSE <<>>))

\* ActionKind::signing_data for an L1 kind.
SigningData(k, is_mainnet, timestamp, vault_address, expires_after) ==
    LET hash_vault_address == IF k.kind = "PerpDeploy" THEN None ELSE vault_address
    IN  [tag |-> "L1",
         connection_id |-> ActionKindHash(k, timestamp, hash_vault_address, expires_after),
         is_mainnet |-> is_mainnet]

----------------------------------------------------------------------------
\* User-signed (EIP-712) actions: the UserSignedAction derive.  A type
\* preimage is held as its sequence of tokens (words and the punctuation
\* ":", "(", ")", ",", " "); its text is the concatenation of the tokens.

RECURSIVE TextOf(_)
TextOf(tokens) ==
    IF tokens = <<>> THEN <<>> ELSE Ascii(Head(tokens)) \o TextOf(Tail(tokens))

\* #[action(types = "...")] of each user-signed struct.  "Other" is the
\* preimage without hyperliquidChain of the derive's own test.
TypesPreimage(ty) ==
    IF ty = "UsdSend"
    THEN <<"UsdSend", "(", "string", " ", "hyperliquidChain", ",",
           "string", " ", "destination", ",", "string", " ", "amount", ",",
           "uint64", " ", "time", ")">>
    ELSE <<"Other", "(", "uint64", " ", "nonce", ")">>

\* format!("HyperliquidTransaction:{types_preimage}")
FullTypesPreimage(ty) == <<"HyperliquidTransaction", ":">> \o TypesPreimage(ty)

\* The first position of token t (str::split_once finds the first match).
IndexOf(tokens, t) ==
    CHOOSE i \in 1..Len(tokens) :
        tokens[i] = t /\ \A j \in 1..(i - 1) : tokens[j] # t

\* str::split_once
SplitOnce(tokens, t) ==
    <<SubSeq(tokens, 1, IndexOf(tokens, t) - 1),
      SubSeq(tokens, IndexOf(tokens, t) + 1, Len(tokens))>>

\* The (type, name) pairs of a parameter list "ty name,ty name,...".
RECURSIVE ParamsOf(_)
ParamsOf(body) ==
    IF body = <<>> THEN <<>>
    ELSE <<<<body[1], body[3]>>>> \o ParamsOf(SubSeq(body, 5, Len(body)))

\* parse_types_params: the parameters between "(" and the closing ")".
ParseTypesParams(full_types_preimage) ==
    ParamsOf(SubSeq(full_types_preimage,
                    IndexOf(full_types_preimage, "(") + 1,
                    Len(full_types_preimage) - 1))

\* The loop of build_multisig_types, inserting the two parameters before
\* hyperliquidChain instead of after it.
RECURSIVE EnrichBefore(_)
EnrichBefore(params) ==
    IF params = <<>> THEN <<>>
    ELSE (IF Head(params)[2] = "hyperliquidChain"
          THEN <<<<"address", "payloadMultiSigUser">>, <<"address", "outerSigner">>,
                 Head(params)>>
          ELSE <<Head(params)>>)
         \o EnrichBefore(Tail(params))

\* The loop of build_multisig_types: every parameter is kept, and the two
\* multi-sig parameters are pushed right after hyperliquidChain.
RECURSIVE Enrich(_)
Enrich(params) ==
    IF params = <<>> THEN <<>>
    ELSE (IF Head(params)[2] = "hyperliquidChain"
          THEN <<Head(params),
                 <<"address", "payloadMultiSigUser">>, <<"address", "outerSigner">>>>
          ELSE <<Head(params)>>)
         \o Enrich(Tail(params))

\* params.map(|(ty, name)| format!("{ty} {name}")).join(",")
RECURSIVE JoinParams(_)
JoinParams(params) ==
    IF params = <<>> THEN <<>>
    ELSE <<Head(params)[1], " ", Head(params)[2]>>
         \o (IF Len(params) > 1 THEN <<",">> ELSE <<>>)
         \o JoinParams(Tail(params))

\* build_multisig_types: (the augmented preimage, its parameters).
BuildMultisigTypes(full_types_preimage) ==
    LET prefix == SplitOnce(full_types_preimage, ":")[1]
        rest == SplitOnce(full_types_preimage, ":")[2]
        struct_name == SplitOnce(rest, "(")[1]
        multisig_params == Enrich(ParseTypesParams(full_types_preimage))
    IN  [types |-> prefix \o <<":">> \o struct_name \o <<"(">>
                   \o JoinParams(multisig_params) \o <<")">>,
         params |-> multisig_params]

\* The decimal digits of a natural number.
RECURSIVE Digits(_)
Digits(n) ==
    IF n < 10 THEN <<48 + n>> ELSE Digits(n \div 10) \o <<48 + (n % 10)>>

RECURSIVE Pow10(_)
Pow10(k) == IF k = 0 THEN 1 ELSE 10 * Pow10(k - 1)

\* The last k decimal digits of n, zero padded.
RECURSIVE PadDigits(_, _)
PadDigits(n, k) ==
    IF k = 0 THEN <<>> ELSE PadDigits(n \div 10, k - 1) \o <<48 + (n % 10)>>

\* Decimal::to_string: the mantissa m with sc fractional digits.
DecimalToString(d) ==
    Digits(d.m \div Pow10(d.sc))
    \o (IF d.sc > 0 THEN Ascii(".") \o PadDigits(d.m % Pow10(d.sc), d.sc) ELSE <<>>)

\* build_field_map: the kind of the struct field a parameter names.
FieldKind(name) ==
    CASE name = "destination" -> "Address"
      [] name = "amount" -> "Decimal"
      [] name = "memo" -> "String"
      [] OTHER -> "Numeric"

\* Whether the preimage names the embedded nonce ("nonce" or "time").
NamesNonce(params) ==
    \E i \in 1..Len(params) : params[i][2] \in {"nonce", "time"}

\* FieldWord, encoding an address field declared as address natively.
FieldWordNativeAddress(action, chain, param) ==
    CASE param[2] = "hyperliquidChain" -> Keccak256(GetHyperliquidChain(chain))
      [] param[2] \in {"nonce", "time"} -> ToBeBytes(Unwrap(action.nonce), 32)
      [] FieldKind(param[2]) = "Address" ->
             (IF param[1] = "address" THEN AbiAddress(action.destination)
              ELSE Keccak256(ToLowercase(AddressToString(action.destination))))
      [] FieldKind(param[2]) = "Decimal" -> Keccak256(DecimalToString(action.amount))
      [] FieldKind(param[2]) = "String" -> Keccak256(action.memo)
      [] OTHER -> ToBeBytes(action.count, 32)

\* One 32-byte word of the struct-hash tuple (build_struct_hash_tokens and
\* the matching arms of build_multisig_hash_tokens).
FieldWord(action, chain, param) ==
    CASE param[2] = "hyperliquidChain" -> Keccak256(GetHyperliquidChain(chain))
      [] param[2] \in {"nonce", "time"} -> ToBeBytes(Unwrap(action.nonce), 32)
      [] FieldKind(param[2]) = "Address" ->
             Keccak256(ToLowercase(AddressToString(action.destination)))
      [] FieldKind(param[2]) = "Decimal" -> Keccak256(DecimalToString(action.amount))
      [] FieldKind(param[2]) = "String" -> Keccak256(action.memo)
      [] OTHER -> ToBeBytes(action.count, 32)

RECURSIVE StructWords(_, _, _)
StructWords(action, chain, params) ==
    IF params = <<>> THEN <<>>
    ELSE FieldWord(action, chain, Head(params)) \o StructWords(action, chain, Tail(params))

\* UserSignedAction::struct_hash (derive); the embedded nonce is read with
\* expect("nonce must be set before signing").
StructHashOf(full, action, chain) ==
    LET params == ParseTypesParams(full)
    IN  IF NamesNonce(params) /\ ~IsSome(action.nonce) THEN Panic
        ELSE Ok(Keccak256(Keccak256(TextOf(full)) \o StructWords(action, chain, params)))

\* struct_hash of an action type of the model, whose preimage is
\* FullTypesPreimage.
StructHash(action, chain) == StructHashOf(FullTypesPreimage(action.ty), action, chain)

\* UserSignedAction::eip712_signing_hash
Eip712SigningHash(action, chain) ==
    LET struct_hash == StructHash(action, chain)
    IN  IF struct_hash.tag = "Panic" THEN Panic
        ELSE Ok(Eip712Digest(
                    DomainHash("HyperliquidSignTransaction", "1", SignatureChainId(chain)),
                    struct_hash.val))

\* MultisigWord, hashing the two injected addresses as lower-case text.
MultisigWordHashedSigners(action, meta, payload_multi_sig_user, outer_signer, param) ==
    CASE param[2] = "payloadMultiSigUser" ->
             Keccak256(ToLowercase(AddressToString(payload_multi_sig_user)))
      [] param[2] = "outerSigner" ->
             Keccak256(ToLowercase(AddressToString(outer_signer)))
      [] OTHER -> FieldWord(action, meta.signing_chain, param)

\* One word of the multi-sig tuple (build_multisig_hash_tokens).
MultisigWord(action, meta, payload_multi_sig_user, outer_signer, param) ==
    CASE param[2] = "payloadMultiSigUser" ->
             (IF param[1] = "address" THEN AbiAddress(payload_multi_sig_user)
              ELSE Keccak256(ToLowercase(AddressToString(payload_multi_sig_user))))
      [] param[2] = "outerSigner" ->
             (IF param[1] = "address" THEN AbiAddress(outer_signer)
              ELSE Keccak256(ToLowercase(AddressToString(outer_signer))))
      [] OTHER -> FieldWord(action, meta.signing_chain, param)

RECURSIVE MultisigWords(_, _, _, _, _)
MultisigWords(action, meta, payload_multi_sig_user, outer_signer, params) ==
    IF params = <<>> THEN <<>>
    ELSE MultisigWord(action, meta, payload_multi_sig_user, outer_signer, Head(params))
         \o MultisigWords(action, meta, payload_multi_sig_user, outer_signer, Tail(params))

\* Action::multisig_signing_hash as the UserSignedAction derive generates it.
UserMultisigSigningHashOf(full, action, meta, payload_multi_sig_user, outer_signer) ==
    LET multisig == BuildMultisigTypes(full)
    IN  IF NamesNonce(multisig.params) /\ ~IsSome(action.nonce) THEN Panic
        ELSE Ok(Eip712Digest(
                    DomainHash("HyperliquidSignTransaction", "1",
                               SignatureChainId(meta.signing_chain)),
                    Keccak256(Keccak256(TextOf(multisig.types))
                              \o MultisigWords(action, meta, payload_multi_sig_user,
                                               outer_signer, multisig.params))))

\* multisig_signing_hash of an action type of the model.
UserMultisigSigningHash(action, meta, payload_multi_sig_user, outer_signer) ==
    UserMultisigSigningHashOf(FullTypesPreimage(action.ty), action, meta,
                              payload_multi_sig_user, outer_signer)

----------------------------------------------------------------------------
\* The Action trait: dispatch on the action type.

\* Action::is_user_signed
IsUserSigned(ty) == ty \notin L1Types

\* Action::signing_hash, hashing a user-signed action under the nonce of the
\* metadata.
SigningHashOverMetaNonce(action, meta) ==
    IF IsUserSigned(action.ty)
    THEN Eip712SigningHash([action EXCEPT !.nonce = Some(meta.nonce)], meta.signing_chain)
    ELSE L1SigningHash(action, meta)

\* Action::signing_hash: the derive of the action's kind.
SigningHash(action, meta) ==
    IF IsUserSigned(action.ty) THEN Eip712SigningHash(action, meta.signing_chain)
    ELSE L1SigningHash(action, meta)

\* Action::multisig_signing_hash, reading the clock for a missing nonce.
MultisigSigningHashReadsClock(action, meta, payload_multi_sig_user, outer_signer) ==
    IF IsUserSigned(action.ty)
    THEN UserMultisigSigningHash(
             [action EXCEPT !.nonce = IF IsSome(action.nonce) THEN action.nonce ELSE Some(hClock)],
             meta, payload_multi_sig_user, outer_signer)
    ELSE L1MultisigSigningHash(action, [meta EXCEPT !.nonce = hClock],
                               payload_multi_sig_user, outer_signer)

\* Action::multisig_signing_hash
MultisigSigningHash(action, meta, payload_multi_sig_user, outer_signer) ==
    IF IsUserSigned(action.ty)
    THEN UserMultisigSigningHash(action, meta, payload_multi_sig_user, outer_signer)
    ELSE L1MultisigSigningHash(action, meta, payload_multi_sig_user, outer_signer)

----------------------------------------------------------------------------
\* Text conversions of the wire format.

\* format!("{:x}", n): the hexadecimal digits of n, lower case.
RECURSIVE HexNat(_)
HexNat(n) ==
    IF n < 16 THEN <<HexDigit(n, FALSE)>>
    ELSE HexNat(n \div 16) \o <<HexDigit(n % 16, FALSE)>>

\* format!("0x{:064x}", n)
FormatWord(n) ==
    Ascii("0x") \o [i \in 1..(64 - Len(HexNat(n))) |-> 48] \o HexNat(n)

\* str::strip_prefix("0x").unwrap_or(text)
StripPrefix0x(text) ==
    IF Len(text) >= 2 /\ SubSeq(text, 1, 2) = Ascii("0x")
    THEN SubSeq(text, 3, Len(text)) ELSE text

\* The value of one hexadecimal digit, in either case.
HexVal(c) ==
    IF c >= 48 /\ c <= 57 THEN c - 48
    ELSE IF c >= 97 /\ c <= 102 THEN c - 87
    ELSE c - 55

\* U256::from_str_radix(text, 16)
RECURSIVE FromStrRadix16(_)
FromStrRadix16(text) ==
    IF text = <<>> THEN 0
    ELSE 16 * FromStrRadix16(SubSeq(text, 1, Len(text) - 1)) + HexVal(text[Len(text)])

\* Pairs of hexadecimal digits as bytes.
RECURSIVE BytesOfHex(_)
BytesOfHex(text) ==
    IF Len(text) < 2 THEN <<>>
    ELSE <<16 * HexVal(text[1]) + HexVal(text[2])>> \o BytesOfHex(SubSeq(text, 3, Len(text)))

\* Deserialize for Address: the 20 bytes of "0x" and 40 hexadecimal digits.
ParseAddress(text) == BytesOfHex(StripPrefix0x(text))

\* The number a string of decimal digits denotes.
RECURSIVE DigitsVal(_)
DigitsVal(text) ==
    IF text = <<>> THEN 0
    ELSE 10 * DigitsVal(SubSeq(text, 1, Len(text) - 1)) + (text[Len(text)] - 48)

\* Decimal::from_str: the digits without the point are the mantissa, the
\* number of digits after the point is the scale.
ParseDecimal(text) ==
    IF \E i \in 1..Len(text) : text[i] = 46
    THEN LET dot == CHOOSE i \in 1..Len(text) : text[i] = 46
         IN  [m |-> DigitsVal(SubSeq(text, 1, dot - 1) \o SubSeq(text, dot + 1, Len(text))),
              sc |-> Len(text) - dot]
    ELSE [m |-> DigitsVal(text), sc |-> 0]

----------------------------------------------------------------------------
\* JSON values (serde_json::Value), tagged by their kind.  An object is a
\* function from its keys to values.

JNull == [t |-> "null"]
JNum(n) == [t |-> "num", v |-> n]
JStr(text) == [t |-> "str", v |-> text]
JBool(b) == [t |-> "bool", v |-> b]
JArr(items) == [t |-> "arr", v |-> items]
JObj(fields) == [t |-> "obj", v |-> fields]

\* Map::insert
JInsert(fields, key, value) ==
    [k \in DOMAIN fields \cup {key} |-> IF k = key THEN value ELSE fields[k]]

\* Map::remove
JRemove(fields, key) == [k \in DOMAIN fields \ {key} |-> fields[k]]

\* Inserting every entry of extra into fields.
JExtend(fields, extra) ==
    [k \in DOMAIN fields \cup DOMAIN extra |-> IF k \in DOMAIN extra THEN extra[k] ELSE fields[k]]

\* Action::payload_key: #[action(payload_key = ...)], or the action type.
PayloadKey(ty) ==
    IF ty = "SetOpenInterestCaps" THEN "setOpenInterestCaps" ELSE ActionType(ty)

\* Action::uses_time: the type preimage has a parameter named "time".
UsesTime(ty) ==
    /\ IsUserSigned(ty)
    /\ \E i \in 1..Len(ParseTypesParams(FullTypesPreimage(ty))) :
           ParseTypesParams(FullTypesPreimage(ty))[i][2] = "time"

\* serde_json::to_value(action): the Serialize impl of each action type.
ToValue(action) ==
    CASE action.ty = "UsdSend" ->
             JObj([destination |-> JStr(ToLowercase(AddressToString(action.destination))),
                   amount |-> JStr(DecimalToString(action.amount)),
                   nonce |-> IF IsSome(action.nonce) THEN JNum(Unwrap(action.nonce)) ELSE JNull])
      [] action.ty = "ToggleBigBlocks" ->
             JObj([usingBigBlocks |-> JBool(action.using_big_blocks)])
      [] OTHER -> JArr(SortCaps(action.caps))

Err(message) == [tag |-> "Err", val |-> message]

\* The user-signed part of build_action_value, leaving nonce under its name.
WithChainFieldsKeepingNonce(ty, fields, signing_chain) ==
    JInsert(JInsert(fields, "signatureChainId",
                    JStr(Ascii("0x") \o HexNat(SignatureChainId(signing_chain)))),
            "hyperliquidChain", JStr(GetHyperliquidChain(signing_chain)))

\* The user-signed part of build_action_value: signatureChainId and
\* hyperliquidChain are inserted, nonce is renamed to time.
WithChainFields(ty, fields, signing_chain) ==
    LET chained ==
            JInsert(JInsert(fields, "signatureChainId",
                            JStr(Ascii("0x") \o HexNat(SignatureChainId(signing_chain)))),
                    "hyperliquidChain", JStr(GetHyperliquidChain(signing_chain)))
    IN  IF UsesTime(ty) /\ "nonce" \in DOMAIN chained /\ "time" \notin DOMAIN chained
        THEN JInsert(JRemove(chained, "nonce"), "time", chained["nonce"])
        ELSE chained

\* build_action_value, writing a user-signed action without the chain
\* members when no chain is set.
BuildActionValueChainOptional(action, signing_chain) ==
    LET payload_value == ToValue(action)
        typed == [type |-> JStr(Ascii(ActionType(action.ty)))]
        payload ==
            IF IsUserSigned(action.ty) /\ IsSome(signing_chain)
            THEN JObj(WithChainFields(action.ty, payload_value.v, Unwrap(signing_chain)))
            ELSE payload_value
    IN  IF PayloadKey(action.ty) = ActionType(action.ty)
        THEN IF payload.t # "obj" THEN Err("action payload must be object")
             ELSE Ok(JObj(JExtend(typed, payload.v)))
        ELSE Ok(JObj(JInsert(typed, PayloadKey(action.ty), payload)))

\* build_action_value
BuildActionValue(action, signing_chain) ==
    LET payload_value == ToValue(action)
        typed == [type |-> JStr(Ascii(ActionType(action.ty)))]
    IN  IF IsUserSigned(action.ty) /\ ~IsSome(signing_chain)
        THEN Err("signing_chain must be set for user-signed actions")
        ELSE IF IsUserSigned(action.ty) /\ payload_value.t # "obj"
        THEN Err("action payload must be object")
        ELSE LET payload ==
                     IF IsUserSigned(action.ty)
                     THEN JObj(WithChainFields(action.ty, payload_value.v, Unwrap(signing_chain)))
                     ELSE payload_value
             IN  IF PayloadKey(action.ty) = ActionType(action.ty)
                 THEN IF payload.t # "obj" THEN Err("action payload must be object")
                      ELSE Ok(JObj(JExtend(typed, payload.v)))
                 ELSE Ok(JObj(JInsert(typed, PayloadKey(action.ty), payload)))

\* serialize_sig, with v written as the bare parity bit.
SerializeSigBareParity(sig) ==
    [r |-> JStr(FormatWord(sig.r)), s |-> JStr(FormatWord(sig.s)),
     v |-> JNum(IF sig.v THEN 1 ELSE 0)]

\* serialize_sig: r and s as 0x and 64 hexadecimal digits, v as 27 + parity.
SerializeSig(sig) ==
    [r |-> JStr(FormatWord(sig.r)), s |-> JStr(FormatWord(sig.s)),
     v |-> JNum(27 + (IF sig.v THEN 1 ELSE 0))]

\* deserialize_sig
DeserializeSig(fields) ==
    IF ~({"r", "s", "v"} \subseteq DOMAIN fields) THEN Err("missing signature field")
    ELSE IF fields["r"].t # "str" \/ fields["s"].t # "str" THEN Err("missing signature field")
    ELSE IF fields["v"].t \notin {"num", "str"} THEN Err("invalid signature.v")
    ELSE IF /\ fields["v"].t = "str"
            /\ \/ fields["v"].v = <<>>
               \/ \E i \in 1..Len(fields["v"].v) : fields["v"].v[i] \notin 48..57
    THEN Err("invalid digit found in string")
    ELSE LET v == IF fields["v"].t = "num" THEN fields["v"].v ELSE DigitsVal(fields["v"].v)
         IN  IF v < 27 THEN Err("invalid v value")
             ELSE Ok([r |-> FromStrRadix16(StripPrefix0x(fields["r"].v)),
                      s |-> FromStrRadix16(StripPrefix0x(fields["s"].v)),
                      v |-> (v - 27) # 0])

\* Serialize for SignedAction: the wire object.  A field that is not written
\* is None.
SerializeSignedAction(signed) ==
    LET action_value == BuildActionValue(signed.action, signed.signing_chain)
    IN  IF action_value.tag = "Err" THEN action_value
        ELSE Ok([action |-> action_value.val,
                 nonce |-> JNum(signed.nonce),
                 signature |-> JObj(SerializeSig(signed.signature)),
                 vaultAddress |-> IF IsSome(signed.vault_address)
                                  THEN Some(JStr(AddressToString(Unwrap(signed.vault_address))))
                                  ELSE None,
                 expiresAfter |-> IF IsSome(signed.expires_after)
                                  THEN Some(JNum(Unwrap(signed.expires_after)))
                                  ELSE None])

\* Deserialize for Option<u64> read from an object: a missing key and null
\* are None.
OptNumField(fields, key) ==
    IF key \in DOMAIN fields /\ fields[key].t = "num" THEN Some(fields[key].v) ELSE None

\* serde_json::from_value::<T>(payload): the Deserialize impl of each type.
FromValue(ty, payload) ==
    CASE ty = "UsdSend" ->
             IF payload.t # "obj" \/ ~({"destination", "amount"} \subseteq DOMAIN payload.v)
             THEN Err("missing field")
             ELSE Ok([ty |-> ty, using_big_blocks |-> FALSE, caps |-> <<>>,
                      destination |-> ParseAddress(payload.v["destination"].v),
                      amount |-> ParseDecimal(payload.v["amount"].v),
                      nonce |-> OptNumField(payload.v, "nonce")])
      [] ty = "ToggleBigBlocks" ->
             IF payload.t # "obj" \/ "usingBigBlocks" \notin DOMAIN payload.v
             THEN Err("missing field")
             ELSE Ok([ty |-> ty, using_big_blocks |-> payload.v["usingBigBlocks"].v,
                      caps |-> <<>>, destination |-> AddressZero,
                      amount |-> [m |-> 0, sc |-> 0],
                      nonce |-> OptNumField(payload.v, "nonce")])
      [] OTHER ->
             IF payload.t # "arr" THEN Err("invalid type")
             ELSE Ok([ty |-> ty, using_big_blocks |-> FALSE, caps |-> payload.v,
                      destination |-> AddressZero, amount |-> [m |-> 0, sc |-> 0],
                      nonce |-> None])

\* The "time" entry copied to "nonce" when there is no "nonce".
TimeAsNonce(ty, fields) ==
    IF IsUserSigned(ty) /\ UsesTime(ty) /\ "time" \in DOMAIN fields /\ "nonce" \notin DOMAIN fields
    THEN JInsert(fields, "nonce", fields["time"])
    ELSE fields

\* deserialize_action::<T>, not comparing `type` with T's action type.
DeserializeActionUntyped(ty, value) ==
    IF value.t # "obj" THEN Err("action must be object")
    ELSE IF "type" \notin DOMAIN value.v \/ value.v["type"].t # "str"
    THEN Err("missing action type")
    ELSE IF PayloadKey(ty) = ActionType(ty)
    THEN FromValue(ty, JObj(TimeAsNonce(ty, JRemove(value.v, "type"))))
    ELSE IF PayloadKey(ty) \notin DOMAIN value.v THEN Err("missing action payload")
    ELSE IF IsUserSigned(ty)
    THEN (IF value.v[PayloadKey(ty)].t # "obj" THEN Err("action payload must be object")
          ELSE FromValue(ty, JObj(TimeAsNonce(ty, value.v[PayloadKey(ty)].v))))
    ELSE FromValue(ty, value.v[PayloadKey(ty)])

\* deserialize_action::<T>
DeserializeAction(ty, value) ==
    IF value.t # "obj" THEN Err("action must be object")
    ELSE IF "type" \notin DOMAIN value.v \/ value.v["type"].t # "str"
    THEN Err("missing action type")
    ELSE IF value.v["type"].v # Ascii(ActionType(ty)) THEN Err("invalid action type")
    ELSE IF PayloadKey(ty) = ActionType(ty)
    THEN FromValue(ty, JObj(TimeAsNonce(ty, JRemove(value.v, "type"))))
    ELSE IF PayloadKey(ty) \notin DOMAIN value.v THEN Err("missing action payload")
    ELSE IF IsUserSigned(ty)
    THEN (IF value.v[PayloadKey(ty)].t # "obj" THEN Err("action payload must be object")
          ELSE FromValue(ty, JObj(TimeAsNonce(ty, value.v[PayloadKey(ty)].v))))
    ELSE FromValue(ty, value.v[PayloadKey(ty)])

\* SignedAction::<T>::from_json: Deserialize for SignedAction through
\* SignedActionHelper; the decoded value has no signing chain.
FromJson(ty, wire) ==
    LET action == DeserializeAction(ty, wire.action)
        signature == IF wire.signature.t = "obj" THEN DeserializeSig(wire.signature.v)
                     ELSE Err("signature must be object")
    IN  IF action.tag = "Err" THEN action
        ELSE IF signature.tag = "Err" THEN signature
        ELSE Ok([action |-> action.val,
                 nonce |-> wire.nonce.v,
                 signature |-> signature.val,
                 vault_address |-> IF IsSome(wire.vaultAddress)
                                   THEN Some(ParseAddress(Unwrap(wire.vaultAddress).v))
                                   ELSE None,
                 expires_after |-> IF IsSome(wire.expiresAfter)
                                   THEN Some(Unwrap(wire.expiresAfter).v)
                                   ELSE None,
                 signing_chain |-> None])

----------------------------------------------------------------------------
\* Preparing and signing.

\* Action::nonce
Nonce(action) == action.nonce

\* Action::with_nonce
WithNonce(action, nonce) == [action EXCEPT !.nonce = Some(nonce)]

\* prepare_action, with the digest computed as if there were no vault.
PrepareActionVaultUnhashed(action, signing_chain, vault_address, expires_after, now) ==
    LET nonce == IF IsSome(Nonce(action)) THEN Unwrap(Nonce(action)) ELSE now
        stamped == WithNonce(action, nonce)
        meta == [nonce |-> nonce, vault_address |-> None,
                 expires_after |-> expires_after, signing_chain |-> signing_chain]
    IN  [action |-> stamped, nonce |-> nonce, vault_address |-> vault_address,
         expires_after |-> expires_after, signing_chain |-> signing_chain,
         signing_hash |-> SigningHash(stamped, meta).val]

\* prepare_action, stamping the clock reading whatever nonce the action holds.
PrepareActionFreshNonce(action, signing_chain, vault_address, expires_after, now) ==
    LET stamped == WithNonce(action, now)
        meta == [nonce |-> now, vault_address |-> vault_address,
                 expires_after |-> expires_after, signing_chain |-> signing_chain]
    IN  [action |-> stamped, nonce |-> now, vault_address |-> vault_address,
         expires_after |-> expires_after, signing_chain |-> signing_chain,
         signing_hash |-> SigningHash(stamped, meta).val]

\* prepare_action, with the digest computed for the clock reading whatever
\* nonce the action holds.
PrepareActionDigestAtClock(action, signing_chain, vault_address, expires_after, now) ==
    LET nonce == IF IsSome(Nonce(action)) THEN Unwrap(Nonce(action)) ELSE now
        stamped == WithNonce(action, nonce)
        meta == [nonce |-> now, vault_address |-> vault_address,
                 expires_after |-> expires_after, signing_chain |-> signing_chain]
    IN  [action |-> stamped, nonce |-> nonce, vault_address |-> vault_address,
         expires_after |-> expires_after, signing_chain |-> signing_chain,
         signing_hash |-> SigningHash(WithNonce(action, now), meta).val]

\* prepare_action; now is what current_timestamp_ms() returns.
PrepareAction(action, signing_chain, vault_address, expires_after, now) ==
    LET nonce == IF IsSome(Nonce(action)) THEN Unwrap(Nonce(action)) ELSE now
        stamped == WithNonce(action, nonce)
        meta == [nonce |-> nonce, vault_address |-> vault_address,
                 expires_after |-> expires_after, signing_chain |-> signing_chain]
    IN  [action |-> stamped, nonce |-> nonce, vault_address |-> vault_address,
         expires_after |-> expires_after, signing_chain |-> signing_chain,
         signing_hash |-> SigningHash(stamped, meta).val]

\* ECDSA is a table of the (wallet, digest) pairs signed so far: the
\* signature of the i-th pair has r and s made from i and the wallet, and
\* recovery looks the pair up.
Wallets == {1, 2}

\* PrivateKeySigner::address
WalletAddress(wallet) == RepeatByte(wallet)

Recorded(table, wallet, digest) ==
    IF \E i \in 1..Len(table) : table[i] = [wallet |-> wallet, digest |-> digest]
    THEN table
    ELSE Append(table, [wallet |-> wallet, digest |-> digest])

\* wallet.sign_hash_sync(&digest), given a table that records the pair.
SignHashSync(table, wallet, digest) ==
    LET i == CHOOSE i \in 1..Len(table) : table[i] = [wallet |-> wallet, digest |-> digest]
    IN  [r |-> 43981 * i, s |-> 22136 + wallet, v |-> ((i + wallet) % 2 = 0)]

\* signature.recover_address_from_prehash(&digest): the signer if the
\* signature is one over this digest, else an address nobody holds.
RecoverAddressFromPrehash(table, signature, digest) ==
    IF \E i \in 1..Len(table) :
           /\ table[i].digest = digest
           /\ signature = SignHashSync(table, table[i].wallet, digest)
    THEN LET i == CHOOSE i \in 1..Len(table) :
                      /\ table[i].digest = digest
                      /\ signature = SignHashSync(table, table[i].wallet, digest)
         IN  WalletAddress(table[i].wallet)
    ELSE RepeatByte(255)

\* PreparedAction::with_signature, dropping the vault address.
WithSignatureVaultDropped(prepared, signature) ==
    [action |-> prepared.action, nonce |-> prepared.nonce, signature |-> signature,
     vault_address |-> None, expires_after |-> prepared.expires_after,
     signing_chain |-> Some(prepared.signing_chain)]

\* PreparedAction::with_signature
WithSignature(prepared, signature) ==
    [action |-> prepared.action, nonce |-> prepared.nonce, signature |-> signature,
     vault_address |-> prepared.vault_address, expires_after |-> prepared.expires_after,
     signing_chain |-> Some(prepared.signing_chain)]

\* PreparedAction::sign, dropping the expiry.
SignPreparedExpiryDropped(prepared, table, wallet) ==
    [action |-> prepared.action, nonce |-> prepared.nonce,
     signature |-> SignHashSync(table, wallet, prepared.signing_hash),
     vault_address |-> prepared.vault_address, expires_after |-> None,
     signing_chain |-> Some(prepared.signing_chain)]

\* PreparedAction::sign, naming Mainnet as the chain whatever was prepared.
SignPreparedForMainnet(prepared, table, wallet) ==
    [action |-> prepared.action, nonce |-> prepared.nonce,
     signature |-> SignHashSync(table, wallet, prepared.signing_hash),
     vault_address |-> prepared.vault_address, expires_after |-> prepared.expires_after,
     signing_chain |-> Some("Mainnet")]

\* PreparedAction::sign, given a table that records (wallet, signing_hash).
SignPrepared(prepared, table, wallet) ==
    [action |-> prepared.action, nonce |-> prepared.nonce,
     signature |-> SignHashSync(table, wallet, prepared.signing_hash),
     vault_address |-> prepared.vault_address, expires_after |-> prepared.expires_after,
     signing_chain |-> Some(prepared.signing_chain)]

\* recover_action: the digest is recomputed from the SignedAction's own
\* fields and the chain, and the signer recovered from it.
RecoverAction(table, signing_chain, signed) ==
    RecoverAddressFromPrehash(
        table, signed.signature,
        SigningHash(signed.action,
                    [nonce |-> signed.nonce, vault_address |-> signed.vault_address,
                     expires_after |-> signed.expires_after,
                     signing_chain |-> signing_chain]).val)

----------------------------------------------------------------------------
\* The values the hash functions are exercised on.

\* The coins and caps of SetOpenInterestCaps entries ("dex:SYMBOL" names
\* are abstracted to the symbol).
CapEntries == {<<Ascii("ETH"), 1>>, <<Ascii("BTC"), 2>>}

CapLists == UNION {[1..n -> CapEntries] : n \in 0..MaxCaps}

Nonces == 1..MaxNonce

OptNonces == {None} \cup {Some(n) : n \in Nonces}

Addresses == {RepeatByte(17), RepeatByte(171)}

Amounts == {[m |-> 1, sc |-> 0], [m |-> 15, sc |-> 1]}

\* One record shape for every action type.
MkAction(ty, using_big_blocks, caps, destination, amount, nonce) ==
    [ty |-> ty, using_big_blocks |-> using_big_blocks, caps |-> caps,
     destination |-> destination, amount |-> amount, nonce |-> nonce]

\* ToggleBigBlocks { using_big_blocks, nonce }
ToggleBigBlocksValues ==
    {MkAction("ToggleBigBlocks", b, <<>>, AddressZero, [m |-> 0, sc |-> 0], n) :
        b \in BOOLEAN, n \in OptNonces}

\* SetOpenInterestCaps { caps, nonce }
SetOpenInterestCapsValues ==
    {MkAction("SetOpenInterestCaps", FALSE, c, AddressZero, [m |-> 0, sc |-> 0], n) :
        c \in CapLists, n \in {None, Some(MaxNonce)}}

\* UsdSend { destination, amount, nonce }
UsdSendValues ==
    {MkAction("UsdSend", FALSE, <<>>, d, a, n) :
        d \in {RepeatByte(171)}, a \in Amounts, n \in OptNonces}

\* A user-signed struct declared with types = "Other(uint64 nonce)".
OtherValues ==
    {MkAction("Other", FALSE, <<>>, AddressZero, [m |-> 0, sc |-> 0], n) : n \in OptNonces}

Actions == ToggleBigBlocksValues \cup SetOpenInterestCapsValues \cup UsdSendValues

HashActions == Actions \cup OtherValues

Chains == {"Mainnet", "Testnet"}

\* SigningMeta { nonce, vault_address, expires_after, signing_chain }
Metas ==
    [nonce : Nonces,
     vault_address : {None, Some(RepeatByte(17))},
     expires_after : {None, Some(MaxNonce)},
     signing_chain : Chains]

\* ActionKind::PerpDeploy(PerpDeploy::SetOpenInterestCaps(..)) with the caps
\* of a v2 SetOpenInterestCaps.
KindOf(action) == [kind |-> "PerpDeploy", caps |-> action.caps]

NoCall == [fn |-> "none"]

----------------------------------------------------------------------------
\* The hashing harness: pick inputs, call the hash functions on them, let
\* the clock advance.

\* The lifecycle variables at rest, for the specifications that do not use them.
LifeIdle ==
    /\ cfg = [vault_address |-> None, expires_after |-> None, signing_chain |-> "Mainnet"]
    /\ built = None
    /\ preparedAction = None
    /\ signedAction = None
    /\ origin = [how |-> "none"]
    /\ wireJson = None
    /\ foreign = None
    /\ ledger = <<>>
    /\ pinned = None
    /\ preparedEver = FALSE

\* The callers of prepare_action.
Threads == 1..MaxCalls

\* The variables of SpecNonce, where nobody calls.
NonceIdle ==
    /\ pcT = [t \in Threads |-> "idle"]
    /\ issued = <<>>
    /\ results = [t \in Threads |-> None]

\* The variables of SpecSend, where nothing is submitted.
SendIdle ==
    /\ lClient = [vault_address |-> None, expires_after |-> None, is_mainnet |-> TRUE]
    /\ lAction = None
    /\ lSigned = None
    /\ lLedger = <<>>
    /\ sent = None

HashInit ==
    /\ LifeIdle
    /\ SendIdle
    /\ NonceIdle
    /\ hAction \in HashActions
    /\ hMeta \in Metas
    /\ hUser = RepeatByte(17)
    /\ hOuter = RepeatByte(171)
    /\ hClock = 1
    /\ hOut = NoCall
    /\ msPrev = None
    /\ msLast = None
    /\ tIn = <<>>
    /\ tOut = None

\* The wall clock advances.
Tick ==
    /\ hClock < MaxNonce
    /\ hClock' = hClock + 1
    /\ UNCHANGED <<hAction, hMeta, hUser, hOuter, hOut, msPrev, msLast, tIn, tOut, lifeVars, sendVars, nonceVars>>

\* action.signing_hash(&meta)
CallSigningHash ==
    /\ hOut' = [fn |-> "signing_hash", action |-> hAction, meta |-> hMeta,
                result |-> SigningHash(hAction, hMeta)]
    /\ UNCHANGED <<hAction, hMeta, hUser, hOuter, hClock, msPrev, msLast, tIn, tOut, lifeVars, sendVars, nonceVars>>

\* action.multisig_signing_hash(&meta, user, outer)
CallMultisigSigningHash ==
    /\ hOut' = [fn |-> "multisig_signing_hash", action |-> hAction, meta |-> hMeta,
                user |-> hUser, outer |-> hOuter,
                result |-> MultisigSigningHash(hAction, hMeta, hUser, hOuter)]
    /\ msPrev' = msLast
    /\ msLast' = Some(MultisigSigningHash(hAction, hMeta, hUser, hOuter))
    /\ UNCHANGED <<hAction, hMeta, hUser, hOuter, hClock, tIn, tOut, lifeVars, sendVars, nonceVars>>

\* compute_l1_hash(&action, nonce, vault_address, expires_after)
CallComputeL1Hash ==
    /\ ~IsUserSigned(hAction.ty)
    /\ hOut' = [fn |-> "compute_l1_hash", value |-> hAction, nonce |-> hMeta.nonce,
                vault_address |-> hMeta.vault_address,
                expires_after |-> hMeta.expires_after,
                result |-> ComputeL1Hash(hAction, hMeta.nonce, hMeta.vault_address,
                                         hMeta.expires_after)]
    /\ UNCHANGED <<hAction, hMeta, hUser, hOuter, hClock, msPrev, msLast, tIn, tOut, lifeVars, sendVars, nonceVars>>

\* ActionKind::hash(timestamp, vault_address, expires_after)
CallActionKindHash ==
    /\ hAction.ty = "SetOpenInterestCaps"
    /\ hOut' = [fn |-> "ActionKind::hash", kind |-> KindOf(hAction),
                nonce |-> hMeta.nonce,
                vault_address |-> hMeta.vault_address,
                expires_after |-> hMeta.expires_after,
                result |-> ActionKindHash(KindOf(hAction), hMeta.nonce,
                                          hMeta.vault_address, hMeta.expires_after)]
    /\ UNCHANGED <<hAction, hMeta, hUser, hOuter, hClock, msPrev, msLast, tIn, tOut, lifeVars, sendVars, nonceVars>>

\* ActionKind::signing_data(is_mainnet, timestamp, vault_address, expires_after)
CallSigningData ==
    /\ hAction.ty = "SetOpenInterestCaps"
    /\ hOut' = [fn |-> "signing_data", kind |-> KindOf(hAction),
                nonce |-> hMeta.nonce,
                vault_address |-> hMeta.vault_address,
                expires_after |-> hMeta.expires_after,
                result |-> SigningData(KindOf(hAction), hMeta.signing_chain = "Mainnet",
                                       hMeta.nonce, hMeta.vault_address,
                                       hMeta.expires_after)]
    /\ UNCHANGED <<hAction, hMeta, hUser, hOuter, hClock, msPrev, msLast, tIn, tOut, lifeVars, sendVars, nonceVars>>

HashNext ==
    \/ Tick
    \/ CallSigningHash
    \/ CallMultisigSigningHash
    \/ CallComputeL1Hash
    \/ CallActionKindHash
    \/ CallSigningData

SpecHash == HashInit /\ [][HashNext]_vars

----------------------------------------------------------------------------
\* Properties of the hash functions (checked under SpecHash).

\* The preimage of a digest.
Preimage(digest) == SubSeq(digest, 2, Len(digest) - 1)

\* Big-endian bytes read back as a number.
RECURSIVE BeDecode(_)
BeDecode(bytes) ==
    IF bytes = <<>> THEN 0
    ELSE 256 * BeDecode(SubSeq(bytes, 1, Len(bytes) - 1)) + bytes[Len(bytes)]

\* pre is exactly serialized || nonce(8 BE) || vault part || expiry part.
ConnectionIdLayout(pre, serialized, nonce, vault_address, expires_after) ==
    LET n == Len(serialized)
        v == IF IsSome(vault_address) THEN 21 ELSE 1
        e == IF IsSome(expires_after) THEN 9 ELSE 0
    IN  /\ Len(pre) = n + 8 + v + e
        /\ SubSeq(pre, 1, n) = serialized
        /\ BeDecode(SubSeq(pre, n + 1, n + 8)) = nonce
        /\ IF IsSome(vault_address)
           THEN pre[n + 9] = 1 /\ SubSeq(pre, n + 10, n + 29) = Unwrap(vault_address)
           ELSE pre[n + 9] = 0
        /\ IsSome(expires_after) =>
               /\ pre[n + 8 + v + 1] = 0
               /\ BeDecode(SubSeq(pre, n + 8 + v + 2, n + 8 + v + 9)) = Unwrap(expires_after)

\* C1: for SetOpenInterestCaps (a perpDeploy-type action), the signing digest
\* computed by signing_hash does not depend on the vault address: it equals
\* the digest computed with vault_address = None, all other inputs equal.
C1_VaultExcludedForPerpDeploy ==
    (hOut.fn = "signing_hash" /\ hOut.action.ty = "SetOpenInterestCaps") =>
        hOut.result = SigningHash(hOut.action, [hOut.meta EXCEPT !.vault_address = None])

\* C6: the connection id computed by compute_l1_hash and by ActionKind::hash
\* is the digest of exactly msgpack(action) || nonce as 8 big-endian bytes
\* || (0x01 and the 20 address bytes, or 0x00) || (0x00 and the expiry as 8
\* big-endian bytes, or nothing), for every presence combination.
C6_ConnectionIdLayout ==
    /\ hOut.fn = "compute_l1_hash" =>
           ConnectionIdLayout(Preimage(hOut.result), RmpToVecNamed(hOut.value),
                              hOut.nonce, hOut.vault_address, hOut.expires_after)
    /\ hOut.fn = "ActionKind::hash" =>
           ConnectionIdLayout(Preimage(hOut.result), MpActionKind(hOut.kind),
                              hOut.nonce, hOut.vault_address, hOut.expires_after)

\* C6 witness: compute_l1_hash was called with both a vault address and an
\* expiry present.
C6_Witness ==
    /\ hOut.fn = "compute_l1_hash"
    /\ IsSome(hOut.vault_address)
    /\ IsSome(hOut.expires_after)
    /\ Len(hOut.value.caps) = MaxCaps

\* C7 as stated: for every action of either scheme the multi-sig digest
\* differs from the single-signer digest of the same action and meta.
C7_MultisigDiffersAlways ==
    (hOut.fn = "multisig_signing_hash" /\ hOut.result.tag = "Ok") =>
        hOut.result # SigningHash(hOut.action, hOut.meta)

\* Whether the type preimage of a user-signed action names hyperliquidChain.
NamesHyperliquidChain(ty) ==
    \E i \in 1..Len(ParseTypesParams(FullTypesPreimage(ty))) :
        ParseTypesParams(FullTypesPreimage(ty))[i][2] = "hyperliquidChain"

\* C7: the multi-sig digest differs from the single-signer digest for every
\* L1 action and for every user-signed action whose type preimage names
\* hyperliquidChain; for a preimage without hyperliquidChain the two digests
\* are the same.
C7_MultisigDiffers ==
    (hOut.fn = "multisig_signing_hash" /\ hOut.result.tag = "Ok") =>
        IF IsUserSigned(hOut.action.ty) /\ ~NamesHyperliquidChain(hOut.action.ty)
        THEN hOut.result = SigningHash(hOut.action, hOut.meta)
        ELSE hOut.result # SigningHash(hOut.action, hOut.meta)

\* C7 witness: a multi-sig digest of a user-signed action whose preimage
\* names hyperliquidChain was computed.
C7_Witness ==
    /\ hOut.fn = "multisig_signing_hash"
    /\ hOut.result.tag = "Ok"
    /\ hOut.action.ty = "UsdSend"

----------------------------------------------------------------------------
\* build_multisig_types on type preimages (SpecTypes).

\* The parameters a type preimage is made of.
ParamPool ==
    {<<"string", "hyperliquidChain">>, <<"string", "destination">>,
     <<"string", "amount">>, <<"uint64", "time">>}

\* Parameter lists with pairwise distinct parameters.
ParamLists ==
    UNION {{l \in [1..n -> ParamPool] : \A i, j \in 1..n : l[i] = l[j] => i = j} :
              n \in 1..MaxParams}

\* format!("HyperliquidTransaction:{struct_name}({params})")
MkPreimage(struct_name, params) ==
    <<"HyperliquidTransaction", ":", struct_name, "(">> \o JoinParams(params) \o <<")">>

TypesInit ==
    /\ LifeIdle
    /\ SendIdle
    /\ NonceIdle
    /\ tIn \in {MkPreimage(name, params) : name \in {"UsdSend", "Other"}, params \in ParamLists}
    /\ tOut = None
    /\ hAction = MkAction("Other", FALSE, <<>>, AddressZero, [m |-> 0, sc |-> 0], None)
    /\ hMeta = [nonce |-> 1, vault_address |-> None, expires_after |-> None,
                signing_chain |-> "Mainnet"]
    /\ hUser = RepeatByte(17)
    /\ hOuter = RepeatByte(171)
    /\ hClock = 1
    /\ hOut = NoCall
    /\ msPrev = None
    /\ msLast = None

\* build_multisig_types(&full_types_preimage)
CallBuildMultisigTypes ==
    /\ tOut = None
    /\ tOut' = Some(BuildMultisigTypes(tIn))
    /\ UNCHANGED <<tIn, hashVars, lifeVars, sendVars, nonceVars>>

TypesNext == CallBuildMultisigTypes

SpecTypes == TypesInit /\ [][TypesNext]_vars

\* The two parameters of the multi-sig variant, as they appear after a
\* parameter in the preimage text.
MultisigFields ==
    <<",", "address", " ", "payloadMultiSigUser", ",", "address", " ", "outerSigner">>

\* C8: for a preimage whose parameter list names hyperliquidChain, the
\* augmented preimage is the original with `address payloadMultiSigUser`
\* then `address outerSigner` inserted right after hyperliquidChain and
\* everything else kept in place; for a preimage without hyperliquidChain it
\* is the original, and the returned parameters are those of the augmented
\* preimage.
C8_BuildMultisigTypes ==
    IsSome(tOut) =>
        /\ IF \E i \in 1..Len(tIn) : tIn[i] = "hyperliquidChain"
           THEN Unwrap(tOut).types =
                    SubSeq(tIn, 1, IndexOf(tIn, "hyperliquidChain"))
                    \o MultisigFields
                    \o SubSeq(tIn, IndexOf(tIn, "hyperliquidChain") + 1, Len(tIn))
           ELSE Unwrap(tOut).types = tIn
        /\ Unwrap(tOut).params = ParseTypesParams(Unwrap(tOut).types)

\* C8 witness: build_multisig_types returned for a preimage that names
\* hyperliquidChain between two other parameters.
C8_Witness ==
    /\ IsSome(tOut)
    /\ Len(ParseTypesParams(tIn)) = 3
    /\ ParseTypesParams(tIn)[2][2] = "hyperliquidChain"

----------------------------------------------------------------------------
\* The action lifecycle of action_v2 (Spec): a caller builds an action, may
\* set its nonce, prepares it, signs it or attaches a signature, serializes
\* it; wire JSON (its own or received) is decoded with from_json; a
\* SignedAction can also be written down directly, its fields being public.

\* The actions as their constructors build them: no nonce yet.
BuiltActions == {a \in Actions : a.nonce = None}

\* ExchangeActionV2Client { vault_address, expires_after, signing_chain }
Clients ==
    [vault_address : {None, Some(RepeatByte(153))},
     expires_after : {None, Some(MaxNonce)},
     signing_chain : Chains]

\* A digest that is not the digest of the prepared action.
OtherDigest == Keccak256(<<>>)

\* A SignedAction written as a struct literal.
LiteralSignedActions ==
    {[action |-> MkAction("ToggleBigBlocks", TRUE, <<>>, AddressZero,
                          [m |-> 0, sc |-> 0], None),
      nonce |-> 1, signature |-> [r |-> 111, s |-> 222, v |-> FALSE],
      vault_address |-> None, expires_after |-> None, signing_chain |-> None]}

\* Wire JSON that was produced elsewhere.
ReceivedJson == {SerializeSignedAction(l).val : l \in LiteralSignedActions}

Init ==
    /\ cfg \in Clients
    /\ built \in {Some(a) : a \in BuiltActions}
    /\ preparedAction = None
    /\ signedAction = None
    /\ origin = [how |-> "none"]
    /\ wireJson = None
    /\ foreign = None
    /\ ledger = <<>>
    /\ pinned = None
    /\ preparedEver = FALSE
    /\ SendIdle
    /\ NonceIdle
    /\ hAction = MkAction("Other", FALSE, <<>>, AddressZero, [m |-> 0, sc |-> 0], None)
    /\ hMeta = [nonce |-> 1, vault_address |-> None, expires_after |-> None,
                signing_chain |-> "Mainnet"]
    /\ hUser = RepeatByte(17)
    /\ hOuter = RepeatByte(171)
    /\ hClock = 1
    /\ hOut = NoCall
    /\ msPrev = None
    /\ msLast = None
    /\ tIn = <<>>
    /\ tOut = None

\* action.with_nonce(n) on the built action.
CallWithNonce(n) ==
    /\ IsSome(built)
    /\ built' = Some(WithNonce(Unwrap(built), n))
    /\ pinned' = IF IsSome(pinned) THEN pinned ELSE Some(n)
    /\ UNCHANGED <<cfg, preparedAction, signedAction, origin, wireJson, foreign, ledger,
                   preparedEver, hashVars, typeVars, sendVars, nonceVars>>

\* client.prepare_action(action): the action moves into the PreparedAction.
CallPrepareAction ==
    /\ IsSome(built)
    /\ preparedAction' = Some(PrepareAction(Unwrap(built), cfg.signing_chain,
                                            cfg.vault_address, cfg.expires_after, hClock))
    /\ built' = None
    /\ preparedEver' = TRUE
    /\ UNCHANGED <<cfg, signedAction, origin, wireJson, foreign, ledger, pinned,
                   hashVars, typeVars, sendVars, nonceVars>>

\* prepared.sign(&wallet): the PreparedAction moves into the SignedAction,
\* or, when sign_hash_sync fails, into nothing: the call returns
\* Error::SignatureFailure.
CallSign(wallet, signer_ok) ==
    /\ IsSome(preparedAction)
    /\ IF signer_ok
       THEN /\ ledger' = Recorded(ledger, wallet, Unwrap(preparedAction).signing_hash)
            /\ signedAction' = Some(SignPrepared(Unwrap(preparedAction), ledger', wallet))
            /\ origin' = [how |-> "sign", wallet |-> wallet,
                          prepared |-> Unwrap(preparedAction),
                          supplied |-> Unwrap(signedAction').signature]
       ELSE /\ ledger' = ledger
            /\ signedAction' = None
            /\ origin' = [how |-> "sign_failed", wallet |-> wallet,
                          prepared |-> Unwrap(preparedAction),
                          error |-> "SignatureFailure"]
    /\ preparedAction' = None
    /\ UNCHANGED <<cfg, built, wireJson, foreign, pinned, preparedEver, hashVars, typeVars, sendVars, nonceVars>>

\* prepared.with_signature(signature), the signature being one a wallet
\* made elsewhere: over the digest of the prepared action, or over another.
CallWithSignature(wallet, over_prepared) ==
    /\ IsSome(preparedAction)
    /\ LET digest == IF over_prepared THEN Unwrap(preparedAction).signing_hash
                     ELSE OtherDigest
       IN  /\ ledger' = Recorded(ledger, wallet, digest)
           /\ signedAction' = Some(WithSignature(Unwrap(preparedAction),
                                                 SignHashSync(ledger', wallet, digest)))
           /\ origin' = [how |-> "with_signature", wallet |-> wallet,
                         prepared |-> Unwrap(preparedAction),
                         supplied |-> SignHashSync(ledger', wallet, digest)]
    /\ preparedAction' = None
    /\ UNCHANGED <<cfg, built, wireJson, foreign, pinned, preparedEver, hashVars, typeVars, sendVars, nonceVars>>

\* serde_json::to_string(&signed)
CallSerialize ==
    /\ IsSome(signedAction)
    /\ wireJson = None
    /\ wireJson' = Some([from |-> "serialize",
                         result |-> SerializeSignedAction(Unwrap(signedAction))])
    /\ UNCHANGED <<cfg, built, preparedAction, signedAction, origin, foreign, ledger,
                   pinned, preparedEver, hashVars, typeVars, sendVars, nonceVars>>

\* Wire JSON arrives from outside.
ReceiveJson(json) ==
    /\ wireJson = None
    /\ wireJson' = Some([from |-> "received", result |-> Ok(json)])
    /\ UNCHANGED <<cfg, built, preparedAction, signedAction, origin, foreign, ledger,
                   pinned, preparedEver, hashVars, typeVars, sendVars, nonceVars>>

\* SignedAction::<T>::from_json(json) for the action type T = ty.
CallFromJson(ty) ==
    /\ IsSome(wireJson)
    /\ Unwrap(wireJson).result.tag = "Ok"
    /\ foreign = None
    /\ foreign' = Some([from |-> "from_json", ty |-> ty,
                        result |-> FromJson(ty, Unwrap(wireJson).result.val)])
    /\ UNCHANGED <<cfg, built, preparedAction, signedAction, origin, wireJson, ledger,
                   pinned, preparedEver, hashVars, typeVars, sendVars, nonceVars>>

\* SignedAction { action, nonce, signature, .. } written as a struct literal.
ConstructSignedAction(literal) ==
    /\ foreign = None
    /\ foreign' = Some([from |-> "constructed", ty |-> literal.action.ty,
                        result |-> Ok(literal)])
    /\ UNCHANGED <<cfg, built, preparedAction, signedAction, origin, wireJson, ledger,
                   pinned, preparedEver, hashVars, typeVars, sendVars, nonceVars>>

Next ==
    \/ Tick
    \/ \E n \in Nonces : CallWithNonce(n)
    \/ CallPrepareAction
    \/ \E wallet \in Wallets, signer_ok \in BOOLEAN : CallSign(wallet, signer_ok)
    \/ \E wallet \in Wallets, over_prepared \in BOOLEAN :
           CallWithSignature(wallet, over_prepared)
    \/ CallSerialize
    \/ \E json \in ReceivedJson : ReceiveJson(json)
    \/ \E ty \in L1Types \cup {"UsdSend"} : CallFromJson(ty)
    \/ \E literal \in LiteralSignedActions : ConstructSignedAction(literal)

Spec == Init /\ [][Next]_vars

----------------------------------------------------------------------------
\* Properties of the lifecycle (checked under Spec).

\* The SignedAction was serialized and the JSON decoded as its own type.
RoundTripped ==
    /\ IsSome(signedAction)
    /\ IsSome(wireJson)
    /\ Unwrap(wireJson).from = "serialize"
    /\ IsSome(foreign)
    /\ Unwrap(foreign).from = "from_json"
    /\ Unwrap(foreign).ty = Unwrap(signedAction).action.ty

\* The envelope fields of two SignedActions are the same.
SameEnvelope(a, b) ==
    /\ a.nonce = b.nonce
    /\ a.signature = b.signature
    /\ a.vault_address = b.vault_address
    /\ a.expires_after = b.expires_after

\* C2 as stated: the decoded SignedAction has the action (every field, the
\* embedded nonce included), nonce, signature, vault_address and
\* expires_after of the original, for every action type.
C2_RoundTripIdentical ==
    RoundTripped =>
        /\ Unwrap(foreign).result.tag = "Ok"
        /\ Unwrap(foreign).result.val.action = Unwrap(signedAction).action
        /\ SameEnvelope(Unwrap(foreign).result.val, Unwrap(signedAction))

\* C2: serializing a SignedAction made by prepare_action and sign or
\* with_signature succeeds, and decoding the JSON with from_json yields the
\* same nonce, signature r, s, v, vault_address and expires_after and no
\* signing chain; a UsdSend action comes back whole, embedded nonce
\* included; a ToggleBigBlocks or SetOpenInterestCaps action comes back
\* with its embedded nonce unset, and the caps in sorted order.
C2_RoundTrip ==
    /\ (IsSome(wireJson) /\ Unwrap(wireJson).from = "serialize") =>
           Unwrap(wireJson).result.tag = "Ok"
    /\ RoundTripped =>
           /\ Unwrap(foreign).result.tag = "Ok"
           /\ SameEnvelope(Unwrap(foreign).result.val, Unwrap(signedAction))
           /\ Unwrap(foreign).result.val.signing_chain = None
           /\ Unwrap(foreign).result.val.action =
                  IF Unwrap(signedAction).action.ty = "UsdSend"
                  THEN Unwrap(signedAction).action
                  ELSE [Unwrap(signedAction).action EXCEPT !.nonce = None,
                                                           !.caps = SortCaps(@)]

\* C2 witness: a SetOpenInterestCaps action whose caps were not in sorted
\* order, signed with a vault and an expiry, went through the round trip.
C2_Witness ==
    /\ RoundTripped
    /\ Unwrap(signedAction).action.ty = "SetOpenInterestCaps"
    /\ Unwrap(signedAction).action.caps # SortCaps(Unwrap(signedAction).action.caps)
    /\ IsSome(Unwrap(signedAction).vault_address)
    /\ IsSome(Unwrap(signedAction).expires_after)
    /\ ~Unwrap(signedAction).signature.v

C4_NoSignedWithoutPrepared ==
    (IsSome(signedAction) \/ (IsSome(foreign) /\ Unwrap(foreign).result.tag = "Ok")) =>
        preparedEver

\* C4: every PreparedAction comes from prepare_action, which consumed the
\* built action and bound its nonce; every SignedAction returned by sign or
\* with_signature carries the fields of the PreparedAction it consumed.  A
\* SignedAction decoded by from_json has no signing chain, and neither it
\* nor a directly constructed one needs a PreparedAction.
C4_Lifecycle ==
    /\ IsSome(preparedAction) =>
           /\ preparedEver
           /\ built = None
           /\ Unwrap(preparedAction).action.nonce = Some(Unwrap(preparedAction).nonce)
    /\ IsSome(signedAction) =>
           /\ preparedEver
           /\ preparedAction = None
           /\ origin.how \in {"sign", "with_signature"}
           /\ Unwrap(signedAction).action = origin.prepared.action
           /\ Unwrap(signedAction).nonce = origin.prepared.nonce
           /\ Unwrap(signedAction).vault_address = origin.prepared.vault_address
           /\ Unwrap(signedAction).expires_after = origin.prepared.expires_after
           /\ Unwrap(signedAction).signing_chain = Some(origin.prepared.signing_chain)
    /\ (IsSome(foreign) /\ Unwrap(foreign).from = "from_json"
            /\ Unwrap(foreign).result.tag = "Ok") =>
           Unwrap(foreign).result.val.signing_chain = None

\* C4 witness: a SignedAction made by sign from a PreparedAction with an
\* expiry, next to one that from_json decoded.
C4_Witness ==
    /\ IsSome(signedAction)
    /\ origin.how = "sign"
    /\ IsSome(Unwrap(signedAction).expires_after)
    /\ IsSome(foreign)
    /\ Unwrap(foreign).from = "from_json"
    /\ Unwrap(foreign).result.tag = "Ok"

\* The embedded nonce of the action instance, wherever the lifecycle has
\* moved it.
InstanceNonce ==
    IF IsSome(built) THEN Nonce(Unwrap(built))
    ELSE IF IsSome(preparedAction) THEN Nonce(Unwrap(preparedAction).action)
    ELSE IF IsSome(signedAction) THEN Nonce(Unwrap(signedAction).action)
    ELSE None

\* C5 as stated: once with_nonce(n) was applied, the embedded nonce of the
\* instance is n ever after.
C5_NonceImmutable ==
    IsSome(pinned) => InstanceNonce = pinned

\* C5: an embedded nonce that is set changes only by a further with_nonce(m),
\* which replaces it with m; prepare_action, sign, with_signature and
\* serialization keep it (a sign that fails consumes the PreparedAction and
\* leaves no instance at all).
C5_NonceKept ==
    [][IsSome(InstanceNonce) =>
          \/ InstanceNonce' = InstanceNonce
          \/ /\ origin'.how = "sign_failed"
             /\ built' = None /\ preparedAction' = None /\ signedAction' = None
          \/ /\ IsSome(built)
             /\ \E m \in Nonces : /\ built' = Some(WithNonce(Unwrap(built), m))
                                  /\ InstanceNonce' = Some(m)]_vars

\* C5 witness: the action was given a nonce other than the clock reading,
\* then prepared, signed and serialized, and still holds that nonce.
C5_Witness ==
    /\ IsSome(pinned)
    /\ pinned # Some(hClock)
    /\ IsSome(signedAction)
    /\ IsSome(wireJson)
    /\ Unwrap(wireJson).from = "serialize"
    /\ InstanceNonce = pinned

\* C10 as stated: a SignedAction made by with_signature holds a signature
\* over the digest the PreparedAction exposed.
C10_SignatureOverPreparedDigest ==
    (IsSome(signedAction) /\ origin.how = "with_signature") =>
        RecoverAddressFromPrehash(ledger, Unwrap(signedAction).signature,
                                  origin.prepared.signing_hash)
            = WalletAddress(origin.wallet)

\* C10: with_signature attaches the supplied signature as it is, next to
\* the PreparedAction's own fields; the SignedAction holds a signature over
\* the prepared digest exactly when the caller supplied one.
C10_WithSignatureAttaches ==
    (IsSome(signedAction) /\ origin.how = "with_signature") =>
        /\ Unwrap(signedAction).signature = origin.supplied
        /\ Unwrap(signedAction).action = origin.prepared.action
        /\ Unwrap(signedAction).nonce = origin.prepared.nonce
        /\ Unwrap(signedAction).vault_address = origin.prepared.vault_address
        /\ Unwrap(signedAction).expires_after = origin.prepared.expires_after
        /\ (RecoverAddressFromPrehash(ledger, Unwrap(signedAction).signature,
                                      origin.prepared.signing_hash)
                = WalletAddress(origin.wallet))
           <=> (\E i \in 1..Len(ledger) :
                    ledger[i] = [wallet |-> origin.wallet,
                                 digest |-> origin.prepared.signing_hash])

\* C10 witness: with_signature attached a signature made over another
\* digest, for a client with a vault address.
C10_Witness ==
    /\ IsSome(signedAction)
    /\ origin.how = "with_signature"
    /\ IsSome(Unwrap(signedAction).vault_address)
    /\ RecoverAddressFromPrehash(ledger, Unwrap(signedAction).signature,
                                 origin.prepared.signing_hash)
           # WalletAddress(origin.wallet)

\* The SigningMeta a PreparedAction stands for, with the given nonce.
MetaOf(p, nonce) ==
    [nonce |-> nonce, vault_address |-> p.vault_address,
     expires_after |-> p.expires_after, signing_chain |-> p.signing_chain]

\* C11: prepare_action returns a PreparedAction whose nonce is the action's
\* embedded nonce when one was set, and the clock reading otherwise; the
\* returned action embeds that nonce, and the digest is the signing hash for
\* that nonce and for no other.
C11_PrepareResolvesNonce ==
    [][(IsSome(built) /\ IsSome(preparedAction') /\ preparedAction' # preparedAction) =>
          LET a == Unwrap(built)
              p == Unwrap(preparedAction')
          IN  /\ p.nonce = (IF IsSome(Nonce(a)) THEN Unwrap(Nonce(a)) ELSE hClock)
              /\ Nonce(p.action) = Some(p.nonce)
              /\ p.signing_hash = SigningHash(p.action, MetaOf(p, p.nonce)).val
              /\ \A m \in Nonces \ {p.nonce} :
                     p.signing_hash
                         # SigningHash(WithNonce(p.action, m), MetaOf(p, m)).val]_vars

\* C11 witness: an action holding a nonce that is not the clock reading was
\* prepared, and the PreparedAction carries that nonce.
C11_Witness ==
    /\ IsSome(preparedAction)
    /\ IsSome(pinned)
    /\ Unwrap(preparedAction).nonce # hClock
    /\ Some(Unwrap(preparedAction).nonce) = Nonce(Unwrap(preparedAction).action)

\* C13: signing_hash and multisig_signing_hash of a user-signed action
\* whose embedded nonce is unset return an error value: no hash, no default
\* nonce, no abort.
C13_UnsetNonceIsTypedFailure ==
    (/\ hOut.fn \in {"signing_hash", "multisig_signing_hash"}
     /\ IsUserSigned(hOut.action.ty)
     /\ hOut.action.nonce = None) =>
        hOut.result.tag = "Err"

----------------------------------------------------------------------------
\* Submission to the exchange.  exchange::Action and exchange::SignedAction
\* are the structs of action.rs, made by BuildAction::build and Action::sign
\* and posted by SignedAction::send; ExchangeActionV2Client posts an
\* action_v2 SignedAction with send_signed_action.  Both read the reply
\* with ExchangeResponseStatusRaw::into_result.

\* Serialize for U256 in a human-readable format: 0x and the hexadecimal
\* digits of the number, without leading zeros.
SerializeU256(n) == Ascii("0x") \o HexNat(n)

\* serialize_sig of action.rs, the serialize_with of ExchangePayload.
PayloadSerializeSig(sig) ==
    [r |-> JStr(SerializeU256(sig.r)), s |-> JStr(SerializeU256(sig.s)),
     v |-> JNum(27 + (IF sig.v THEN 1 ELSE 0))]

\* Serialize for requests::UsdSend: the members of the struct, the chain id
\* in hexadecimal.
SerializeUsdSend(k) ==
    JObj([signatureChainId |-> JStr(Ascii("0x") \o HexNat(k.signature_chain_id)),
          hyperliquidChain |-> JStr(k.hyperliquid_chain),
          destination |-> JStr(k.destination),
          amount |-> JStr(k.amount),
          time |-> JNum(k.time)])

\* Serialize for ActionKind: PerpDeploy::SetOpenInterestCaps as a struct of
\* type and setOpenInterestCaps, UsdSend as a map of type and usdSend.
SerializeActionKind(k) ==
    IF k.kind = "PerpDeploy"
    THEN JObj([type |-> JStr(Ascii("perpDeploy")),
               setOpenInterestCaps |-> JArr(SortCaps(k.caps))])
    ELSE JObj([type |-> JStr(Ascii("usdSend")), usdSend |-> SerializeUsdSend(k)])

\* Serialize for ExchangePayload: the members action, signature and nonce.
SerializeExchangePayload(payload) ==
    [action |-> SerializeActionKind(payload.action),
     signature |-> JObj(PayloadSerializeSig(payload.signature)),
     nonce |-> JNum(payload.nonce)]

\* ExchangeClient::hyperliquid_chain
HyperliquidChain(client) == IF client.is_mainnet THEN "Mainnet" ELSE "Testnet"

\* The UsdSend that ExchangeClient::usdc_transfer_action makes before it
\* builds it; now is what next_nonce() returns.
UsdcTransferRequest(client, amount, destination, now) ==
    [kind |-> "UsdSend", signature_chain_id |-> 421614,
     hyperliquid_chain |-> Ascii(HyperliquidChain(client)),
     destination |-> AddressToString(destination), amount |-> amount, time |-> now]

\* enum ActionKind: the variants.
ActionKindVariants ==
    {"UsdSend", "UpdateLeverage", "UpdateIsolatedMargin", "Order", "Cancel",
     "CancelByCloid", "BatchModify", "ApproveAgent", "Withdraw3", "SpotUser",
     "SendAsset", "VaultTransfer", "SpotSend", "SetReferrer", "ApproveBuilderFee",
     "EvmUserModify", "ScheduleCancel", "ClaimRewards", "PerpDeploy"}

\* ActionKind::is_l1_action
IsL1Action(k) ==
    k.kind \in {"Order", "Cancel", "CancelByCloid", "BatchModify", "UpdateLeverage",
                "UpdateIsolatedMargin", "SpotUser", "VaultTransfer", "SetReferrer",
                "EvmUserModify", "ScheduleCancel", "ClaimRewards", "PerpDeploy"}

\* Eip712::eip712_signing_hash for requests::UsdSend: the domain carries the
\* struct's signature_chain_id.
UsdSendEip712SigningHash(k) ==
    Eip712Digest(
        DomainHash("HyperliquidSignTransaction", "1", k.signature_chain_id),
        Keccak256(Keccak256(TextOf(FullTypesPreimage("UsdSend")))
                  \o Keccak256(k.hyperliquid_chain) \o Keccak256(k.destination)
                  \o Keccak256(k.amount) \o ToBeBytes(k.time, 32)))

\* Eip712::eip712_signing_hash for the other typed requests, of which only
\* the chain id and the time or nonce are carried.
RequestEip712SigningHash(k) ==
    Eip712Digest(
        DomainHash("HyperliquidSignTransaction", "1", k.signature_chain_id),
        Keccak256(Keccak256(Ascii(k.kind))
                  \o ToBeBytes(IF "time" \in DOMAIN k THEN k.time ELSE k.nonce, 32)))

\* ActionKind::extract_eip712_hash
ExtractEip712Hash(k) ==
    CASE k.kind = "UsdSend" -> Ok(UsdSendEip712SigningHash(k))
      [] k.kind \in {"Withdraw3", "SpotSend", "SendAsset", "ApproveAgent",
                     "ApproveBuilderFee"} -> Ok(RequestEip712SigningHash(k))
      [] OTHER -> Err("Action type not supported for typed data signing")

\* ActionKind::extract_timestamp, without the SendAsset arm.
ExtractTimestampWithoutSendAsset(k) ==
    CASE k.kind \in {"UsdSend", "Withdraw3", "SpotSend"} -> Some(k.time)
      [] k.kind \in {"ApproveAgent", "ApproveBuilderFee"} -> Some(k.nonce)
      [] OTHER -> None

\* ActionKind::extract_timestamp
ExtractTimestamp(k) ==
    CASE k.kind \in {"UsdSend", "Withdraw3", "SpotSend"} -> Some(k.time)
      [] k.kind \in {"ApproveAgent", "ApproveBuilderFee", "SendAsset"} -> Some(k.nonce)
      [] OTHER -> None

\* BuildAction::build for ActionKind; now is what next_nonce() returns.  The
\* result is the Action, or the error of signing_data.
Build(k, client, now) ==
    LET timestamp == IF IsL1Action(k) THEN now
                     ELSE IF IsSome(ExtractTimestamp(k)) THEN Unwrap(ExtractTimestamp(k))
                     ELSE now
        hash == ExtractEip712Hash(k)
    IN  IF ~IsL1Action(k) /\ hash.tag = "Err" THEN hash
        ELSE [action |-> k, nonce |-> timestamp,
              vault_address |-> client.vault_address,
              expires_after |-> client.expires_after,
              signing_data |->
                  IF IsL1Action(k)
                  THEN SigningData(k, client.is_mainnet, timestamp, client.vault_address,
                                   client.expires_after)
                  ELSE [tag |-> "TypedData", hash |-> hash.val]]

\* sign_l1_action: the wallet signs the Agent digest of the connection id.
SignL1Action(table, wallet, connection_id, is_mainnet) ==
    SignHashSync(table, wallet,
                 AgentSigningHash(connection_id,
                                  GetSource(IF is_mainnet THEN "Mainnet" ELSE "Testnet")))

\* The digest Action::sign has the wallet sign.
SignedDigest(signing_data) ==
    IF signing_data.tag = "L1"
    THEN AgentSigningHash(signing_data.connection_id,
                          GetSource(IF signing_data.is_mainnet THEN "Mainnet" ELSE "Testnet"))
    ELSE signing_data.hash

\* Action::sign
Sign(action, table, wallet) ==
    [action |-> action.action, nonce |-> action.nonce,
     signature |-> IF action.signing_data.tag = "L1"
                   THEN SignL1Action(table, wallet, action.signing_data.connection_id,
                                     action.signing_data.is_mainnet)
                   ELSE SignHashSync(table, wallet, action.signing_data.hash),
     vault_address |-> action.vault_address,
     expires_after |-> action.expires_after]

\* str::contains
Contains(text, pat) ==
    \E i \in 0..(Len(text) - Len(pat)) : SubSeq(text, i + 1, i + Len(pat)) = pat

\* into_result, recognising the insufficient-stake message only at the
\* start of the text.
IntoResultAtStart(raw) ==
    IF raw.status = "ok" THEN Ok(raw.response)
    ELSE LET msg == raw.response
             pat == Ascii("insufficient staked")
         IN  Err([error |-> "Api",
                  api |-> IF Len(msg) >= Len(pat) /\ SubSeq(msg, 1, Len(pat)) = pat
                          THEN "InsufficientStakedHype" ELSE "Other",
                  message |-> msg])

\* ExchangeResponseStatusRaw::into_result
IntoResult(raw) ==
    IF raw.status = "ok" THEN Ok(raw.response)
    ELSE LET msg == raw.response
         IN  Err([error |-> "Api",
                  api |-> IF \/ Contains(msg, Ascii("insufficient staked HYPE"))
                             \/ Contains(msg, Ascii("insufficient staked"))
                          THEN "InsufficientStakedHype" ELSE "Other",
                  message |-> msg])

\* What comes back from the POST: an HTTP failure, a body that is not an
\* ExchangeResponseStatusRaw, or one that is.
Messages ==
    {Ascii("insufficient staked HYPE"), Ascii("insufficient staked"),
     Ascii("Insufficient staked HYPE"),
     Ascii("not enough: insufficient staked HYPE for dex"),
     Ascii("Must deposit before performing actions"), <<>>}

ExchangeResponses == {[type |-> "default"], [type |-> "order"]}

Replies ==
    {[tag |-> "Request"], [tag |-> "NotJson"]}
    \cup {[tag |-> "Raw", raw |-> [status |-> "ok", response |-> r]] : r \in ExchangeResponses}
    \cup {[tag |-> "Raw", raw |-> [status |-> "err", response |-> m]] : m \in Messages}

\* The part of send and send_signed_action after the body was posted.
ReadReply(reply) ==
    CASE reply.tag = "Request" -> Err([error |-> "GenericRequest"])
      [] reply.tag = "NotJson" -> Err([error |-> "JsonParse"])
      [] OTHER -> IntoResult(reply.raw)

\* SignedAction::send of action.rs: the body posted and the result.
Send(signed, reply) ==
    [body |-> Ok(SerializeExchangePayload([action |-> signed.action,
                                           signature |-> signed.signature,
                                           nonce |-> signed.nonce])),
     result |-> ReadReply(reply)]

\* ExchangeActionV2Client::send_signed_action
SendSignedAction(signed, reply) ==
    LET body == SerializeSignedAction(signed)
    IN  [body |-> body,
         result |-> IF body.tag = "Err" THEN Err([error |-> "SerializationFailure"])
                    ELSE ReadReply(reply)]

\* ExchangeActionV2Client::send_action: prepare_action, sign with the
\* client's signer, send_signed_action.  table records the digest signed.
SendAction(action, client, table, wallet, now, reply) ==
    LET prepared == PrepareAction(action, client.signing_chain, client.vault_address,
                                  client.expires_after, now)
        signed == SignPrepared(prepared, table, wallet)
    IN  [signed |-> signed] @@ SendSignedAction(signed, reply)

\* The ActionKinds submitted: PerpDeploy::SetOpenInterestCaps.
Kinds == {[kind |-> "PerpDeploy", caps |-> c] : c \in CapLists}

\* Both clients are configured alike.
SendInit ==
    /\ LifeIdle
    /\ NonceIdle
    /\ hAction = MkAction("Other", FALSE, <<>>, AddressZero, [m |-> 0, sc |-> 0], None)
    /\ hMeta = [nonce |-> 1, vault_address |-> None, expires_after |-> None,
                signing_chain |-> "Mainnet"]
    /\ hUser = RepeatByte(17)
    /\ hOuter = RepeatByte(171)
    /\ hClock = 1
    /\ hOut = NoCall
    /\ msPrev = None
    /\ msLast = None
    /\ tIn = <<>>
    /\ tOut = None
    /\ lClient \in [vault_address : {None, Some(RepeatByte(153))},
                    expires_after : {None, Some(MaxNonce)},
                    is_mainnet : BOOLEAN]
    /\ lAction = None
    /\ lSigned = None
    /\ lLedger = <<>>
    /\ sent = None

\* The ExchangeActionV2Client configured as the ExchangeClient is.
V2Client ==
    [vault_address |-> lClient.vault_address, expires_after |-> lClient.expires_after,
     signing_chain |-> IF lClient.is_mainnet THEN "Mainnet" ELSE "Testnet"]

\* kind.build(&client); one submission is followed.
CallBuild(k) ==
    /\ sent = None
    /\ lAction = None
    /\ lSigned = None
    /\ lAction' = Some(Build(k, lClient, hClock))
    /\ UNCHANGED <<lClient, lSigned, lLedger, sent, hashVars, typeVars, lifeVars, nonceVars>>

\* client.usdc_transfer_action(amount, destination)
CallUsdcTransferAction(amount, destination) ==
    /\ sent = None
    /\ lAction = None
    /\ lSigned = None
    /\ lAction' = Some(Build(UsdcTransferRequest(lClient, amount, destination, hClock),
                             lClient, hClock))
    /\ UNCHANGED <<lClient, lSigned, lLedger, sent, hashVars, typeVars, lifeVars, nonceVars>>

\* action.sign(&wallet): the Action moves into the SignedAction.
CallActionSign(wallet) ==
    /\ IsSome(lAction)
    /\ lLedger' = Recorded(lLedger, wallet, SignedDigest(Unwrap(lAction).signing_data))
    /\ lSigned' = Some(Sign(Unwrap(lAction), lLedger', wallet))
    /\ lAction' = None
    /\ UNCHANGED <<lClient, sent, hashVars, typeVars, lifeVars, nonceVars>>

\* signed.send(): the SignedAction is consumed.
CallSend(reply) ==
    /\ IsSome(lSigned)
    /\ sent' = Some([via |-> "send", signed |-> Unwrap(lSigned), reply |-> reply]
                    @@ Send(Unwrap(lSigned), reply))
    /\ lSigned' = None
    /\ UNCHANGED <<lClient, lAction, lLedger, hashVars, typeVars, lifeVars, nonceVars>>

\* client.send_action(action) on the v2 client, whose signer is wallet.
CallSendAction(action, wallet, reply) ==
    /\ sent = None
    /\ lAction = None
    /\ lSigned = None
    /\ LET prepared == PrepareAction(action, V2Client.signing_chain, V2Client.vault_address,
                                     V2Client.expires_after, hClock)
       IN  lLedger' = Recorded(lLedger, wallet, prepared.signing_hash)
    /\ sent' = Some([via |-> "send_action", reply |-> reply]
                    @@ SendAction(action, V2Client, lLedger', wallet, hClock, reply))
    /\ UNCHANGED <<lClient, lAction, lSigned, hashVars, typeVars, lifeVars, nonceVars>>

SendNext ==
    \/ Tick
    \/ \E k \in Kinds : CallBuild(k)
    \/ \E amount \in {DecimalToString(a) : a \in Amounts} :
           CallUsdcTransferAction(amount, RepeatByte(171))
    \/ \E wallet \in Wallets : CallActionSign(wallet)
    \/ \E reply \in Replies : CallSend(reply)
    \/ \E action \in BuiltActions, wallet \in Wallets, reply \in Replies :
           CallSendAction(action, wallet, reply)

SpecSend == SendInit /\ [][SendNext]_vars

----------------------------------------------------------------------------
\* Properties of submission (checked under SpecSend).

\* A member of a posted body: Some(value), or None when the body has no
\* such member.
WireMember(body, key) == IF key \in DOMAIN body THEN body[key] ELSE None

\* C12: when the client was given a vault address (an expiry), the body
\* posted for the signed action has the member vaultAddress (expiresAfter)
\* with that value, for deployment actions too; when it was not, the member
\* is absent.
C12_EnvelopeCarriesVaultAndExpiry ==
    (IsSome(sent) /\ Unwrap(sent).body.tag = "Ok") =>
        LET body == Unwrap(sent).body.val
            vault == WireMember(body, "vaultAddress")
            expiry == WireMember(body, "expiresAfter")
        IN  /\ IF IsSome(lClient.vault_address)
               THEN /\ IsSome(vault)
                    /\ Unwrap(vault).t = "str"
                    /\ ParseAddress(Unwrap(vault).v) = Unwrap(lClient.vault_address)
               ELSE vault = None
            /\ IF IsSome(lClient.expires_after)
               THEN expiry = Some(JNum(Unwrap(lClient.expires_after)))
               ELSE expiry = None

\* Whether the submission is of a user-signed (EIP-712) action whose body
\* was made.
UserSignedSent ==
    /\ IsSome(sent)
    /\ Unwrap(sent).body.tag = "Ok"
    /\ IF Unwrap(sent).via = "send"
       THEN Unwrap(sent).signed.action.kind = "UsdSend"
       ELSE IsUserSigned(Unwrap(sent).signed.action.ty)

\* The members of the user-signed action in the body posted.
SubmittedAction ==
    IF Unwrap(sent).via = "send"
    THEN Unwrap(sent).body.val.action.v["usdSend"].v
    ELSE Unwrap(sent).body.val.action.v

\* Whether digest is an EIP-712 digest under the HyperliquidSignTransaction
\* domain with this chain id.
UnderDomain(digest, chain_id) ==
    LET pre == <<25, 1>> \o DomainHash("HyperliquidSignTransaction", "1", chain_id)
    IN  /\ Len(Preimage(digest)) >= Len(pre)
        /\ SubSeq(Preimage(digest), 1, Len(pre)) = pre

\* C14: a user-signed action is signed under the domain chain id 42161 on
\* Mainnet and 421614 on Testnet, and the signatureChainId member of the
\* submitted action is that chain id in hexadecimal (0x66eee on Testnet).
C14_SignatureChainId ==
    UserSignedSent =>
        /\ UnderDomain(lLedger[Len(lLedger)].digest,
                       IF lClient.is_mainnet THEN 42161 ELSE 421614)
        /\ SubmittedAction["signatureChainId"]
               = JStr(Ascii(IF lClient.is_mainnet THEN "0xa4b1" ELSE "0x66eee"))

\* Whether text is 0x followed by exactly 64 lower-case hexadecimal digits
\* that denote n.
IsPaddedWord(text, n) ==
    /\ Len(text) = 66
    /\ SubSeq(text, 1, 2) = Ascii("0x")
    /\ \A i \in 3..66 : text[i] \in (48..57) \cup (97..102)
    /\ FromStrRadix16(SubSeq(text, 3, 66)) = n

\* C15: every signature written to the wire has v = 27 + recovery bit, and
\* r and s written as 0x and exactly 64 hexadecimal digits, zero-padded.
C15_SignatureOnWire ==
    (IsSome(sent) /\ Unwrap(sent).body.tag = "Ok") =>
        LET sig == Unwrap(sent).signed.signature
            written == Unwrap(sent).body.val.signature.v
        IN  /\ written.v = JNum(27 + (IF sig.v THEN 1 ELSE 0))
            /\ written.v.v \in {27, 28}
            /\ written.r.t = "str" /\ IsPaddedWord(written.r.v, sig.r)
            /\ written.s.t = "str" /\ IsPaddedWord(written.s.v, sig.s)

\* C16: into_result maps status ok to Ok(response) and status err to
\* Err(Error::Api(e)), e being InsufficientStakedHype when the message
\* contains "insufficient staked" and Other otherwise, with the message
\* unchanged; err never gives Ok and ok never gives Err.
C16_IntoResult ==
    (IsSome(sent) /\ Unwrap(sent).body.tag = "Ok" /\ Unwrap(sent).reply.tag = "Raw") =>
        LET raw == Unwrap(sent).reply.raw
            result == Unwrap(sent).result
        IN  IF raw.status = "ok"
            THEN result.tag = "Ok" /\ result.val = raw.response
            ELSE /\ result.tag = "Err"
                 /\ result.val.error = "Api"
                 /\ result.val.message = raw.response
                 /\ result.val.api =
                        (IF \E i \in 1..Len(raw.response) :
                                /\ i + 18 <= Len(raw.response)
                                /\ SubSeq(raw.response, i, i + 18) = Ascii("insufficient staked")
                         THEN "InsufficientStakedHype" ELSE "Other")

\* C16 witness: an err reply whose message has "insufficient staked" in its
\* middle was read as InsufficientStakedHype.
C16_Witness ==
    /\ IsSome(sent)
    /\ Unwrap(sent).reply.tag = "Raw"
    /\ Unwrap(sent).reply.raw.status = "err"
    /\ Unwrap(sent).reply.raw.response = Ascii("not enough: insufficient staked HYPE for dex")
    /\ Unwrap(sent).result.tag = "Err"
    /\ Unwrap(sent).result.val.api = "InsufficientStakedHype"

----------------------------------------------------------------------------
\* prepare_action called side by side.  Each caller holds an action without
\* an embedded nonce; prepare_action reads the wall clock for it and then
\* hashes.  The callers share nothing but the clock, and the system clock
\* can be set back.

\* current_timestamp_ms, kept above every nonce obtained before.
CurrentTimestampMsAboveLast(clock) ==
    IF issued # <<>> /\ clock <= issued[Len(issued)].nonce
    THEN issued[Len(issued)].nonce + 1
    ELSE clock

\* current_timestamp_ms: SystemTime::now() in milliseconds since the epoch.
CurrentTimestampMs(clock) == clock

\* The action each caller prepares.
UnstampedAction ==
    MkAction("ToggleBigBlocks", TRUE, <<>>, AddressZero, [m |-> 0, sc |-> 0], None)

NonceInit ==
    /\ LifeIdle
    /\ SendIdle
    /\ NonceIdle
    /\ hAction = MkAction("Other", FALSE, <<>>, AddressZero, [m |-> 0, sc |-> 0], None)
    /\ hMeta = [nonce |-> 1, vault_address |-> None, expires_after |-> None,
                signing_chain |-> "Mainnet"]
    /\ hUser = RepeatByte(17)
    /\ hOuter = RepeatByte(171)
    /\ hClock = 1
    /\ hOut = NoCall
    /\ msPrev = None
    /\ msLast = None
    /\ tIn = <<>>
    /\ tOut = None

\* The first statement of prepare_action(action, ..) by caller t:
\* action.nonce().unwrap_or_else(current_timestamp_ms).
BeginPrepare(t) ==
    /\ pcT[t] = "idle"
    /\ issued' = Append(issued, [thread |-> t, nonce |-> CurrentTimestampMs(hClock)])
    /\ pcT' = [pcT EXCEPT ![t] = "hashing"]
    /\ UNCHANGED <<results, hashVars, typeVars, lifeVars, sendVars>>

\* The nonce caller t obtained.
NonceOf(t) ==
    LET i == CHOOSE i \in 1..Len(issued) : issued[i].thread = t
    IN  issued[i].nonce

\* The rest of prepare_action by caller t: with_nonce, signing_hash, and the
\* PreparedAction returned.
CompletePrepare(t) ==
    /\ pcT[t] = "hashing"
    /\ results' = [results EXCEPT
                      ![t] = Some(PrepareAction(UnstampedAction, "Mainnet", None, None,
                                                NonceOf(t)))]
    /\ pcT' = [pcT EXCEPT ![t] = "done"]
    /\ UNCHANGED <<issued, hashVars, typeVars, lifeVars, sendVars>>

\* The system clock is set back.
ClockSetBack ==
    /\ hClock > 1
    /\ hClock' = hClock - 1
    /\ UNCHANGED <<hAction, hMeta, hUser, hOuter, hOut, msPrev, msLast, tIn, tOut,
                   lifeVars, sendVars, nonceVars>>

NonceNext ==
    \/ Tick
    \/ ClockSetBack
    \/ \E t \in Threads : BeginPrepare(t)
    \/ \E t \in Threads : CompletePrepare(t)

SpecNonce == NonceInit /\ [][NonceNext]_vars

\* C17: the nonce a prepare_action call obtains for an action without one is
\* the clock reading of that moment, whatever nonces were obtained before:
\* it repeats an earlier nonce when the clock still reads it, and is below
\* an earlier nonce when the clock reads less.
C17_NonceIsClockReading ==
    [][\A t \in Threads :
          (pcT[t] = "idle" /\ pcT'[t] = "hashing") =>
              /\ Len(issued') = Len(issued) + 1
              /\ issued'[Len(issued')] = [thread |-> t, nonce |-> hClock]
              /\ \A i \in 1..Len(issued) :
                     /\ issued'[i] = issued[i]
                     /\ issued[i].nonce = hClock =>
                            issued'[Len(issued')].nonce = issued'[i].nonce
                     /\ issued[i].nonce > hClock =>
                            issued'[Len(issued')].nonce < issued'[i].nonce]_vars

\* C17 witness: of three calls that returned, two obtained equal nonces and
\* a later one a smaller nonce than an earlier one.
C17_Witness ==
    /\ \A t \in Threads : pcT[t] = "done" /\ IsSome(results[t])
    /\ \E i, j \in 1..Len(issued) : i < j /\ issued[i].nonce = issued[j].nonce
    /\ \E i, j \in 1..Len(issued) : i < j /\ issued[j].nonce < issued[i].nonce
    /\ \A t \in Threads : Unwrap(results[t]).nonce = NonceOf(t)

----------------------------------------------------------------------------
\* The UserSignedAction derive on declared structs.  Probe is a struct with
\* one field of each kind,
\*   Probe { destination: Address, amount: Decimal, memo: String,
\*           count: u32, nonce: Option<u64> },
\* declared with #[action(types = "Probe(..)")] over the parameters below.

\* The (type, name) pairs a declaration of Probe can name.
ProbePool ==
    {<<"string", "hyperliquidChain">>, <<"string", "destination">>,
     <<"address", "destination">>, <<"string", "amount">>, <<"string", "memo">>,
     <<"uint32", "count">>, <<"uint64", "nonce">>}

\* Declarations: parameter lists with pairwise distinct names.
ProbeParamLists ==
    UNION {{l \in [1..n -> ProbePool] : \A i, j \in 1..n : l[i][2] = l[j][2] => i = j} :
              n \in 1..MaxParams}

ProbeValues ==
    {[ty |-> "Probe", destination |-> RepeatByte(171), amount |-> a,
      memo |-> Ascii("hello"), count |-> 7, nonce |-> n] :
        a \in Amounts, n \in {None, Some(MaxNonce)}}

StructInit ==
    /\ LifeIdle
    /\ SendIdle
    /\ NonceIdle
    /\ tIn \in {MkPreimage("Probe", params) : params \in ProbeParamLists}
    /\ tOut = None
    /\ hAction \in ProbeValues
    /\ hMeta \in {m \in Metas : m.nonce = 1 /\ m.vault_address = None /\ m.expires_after = None}
    /\ hUser = RepeatByte(17)
    /\ hOuter = RepeatByte(171)
    /\ hClock = 1
    /\ hOut = NoCall
    /\ msPrev = None
    /\ msLast = None

\* action.struct_hash(&chain) for the declaration tIn
CallStructHash ==
    /\ hOut' = [fn |-> "struct_hash", full |-> tIn, action |-> hAction,
                chain |-> hMeta.signing_chain,
                result |-> StructHashOf(tIn, hAction, hMeta.signing_chain)]
    /\ UNCHANGED <<hAction, hMeta, hUser, hOuter, hClock, msPrev, msLast, tIn, tOut,
                   lifeVars, sendVars, nonceVars>>

\* action.multisig_signing_hash(&meta, user, outer) for the declaration tIn
CallDeclaredMultisigSigningHash ==
    /\ hOut' = [fn |-> "multisig_signing_hash", full |-> tIn, action |-> hAction,
                meta |-> hMeta, user |-> hUser, outer |-> hOuter,
                result |-> UserMultisigSigningHashOf(tIn, hAction, hMeta, hUser, hOuter)]
    /\ UNCHANGED <<hAction, hMeta, hUser, hOuter, hClock, msPrev, msLast, tIn, tOut,
                   lifeVars, sendVars, nonceVars>>

StructNext ==
    \/ CallStructHash
    \/ CallDeclaredMultisigSigningHash

SpecStruct == StructInit /\ [][StructNext]_vars

\* What the claim says entry i of the tuple is, for one parameter.
ExpectedEntry(action, chain, param) ==
    CASE param[2] = "hyperliquidChain" -> Keccak256(Ascii(chain))
      [] param[2] \in {"nonce", "time"} -> ToBeBytes(Unwrap(action.nonce), 32)
      [] param[2] = "destination" ->
             Keccak256(Ascii("0x") \o HexOfBytes(action.destination, FALSE))
      [] param[2] = "amount" -> Keccak256(DecimalToString(action.amount))
      [] param[2] = "memo" -> Keccak256(action.memo)
      [] param[2] = "count" -> ToBeBytes(action.count, 32)

RECURSIVE ExpectedEntries(_, _, _)
ExpectedEntries(action, chain, params) ==
    IF params = <<>> THEN <<>>
    ELSE ExpectedEntry(action, chain, Head(params))
         \o ExpectedEntries(action, chain, Tail(params))

\* The parameters a declaration was written with.
DeclaredParams(full) ==
    CHOOSE params \in ProbeParamLists : MkPreimage("Probe", params) = full

\* C19: struct_hash hashes the tuple of the hash of the full preimage
\* followed by one entry per declared parameter, in order: the hash of the
\* chain name for hyperliquidChain, the embedded nonce as an unsigned
\* integer for nonce or time, the hash of the lower-case text for an
\* address field (also when declared address), the hash of the string form
\* for a string or decimal field, an unsigned integer for a numeric field.
C19_StructHashTuple ==
    (hOut.fn = "struct_hash" /\ hOut.result.tag = "Ok") =>
        Preimage(hOut.result.val)
            = Keccak256(TextOf(hOut.full))
              \o ExpectedEntries(hOut.action, hOut.chain, DeclaredParams(hOut.full))

\* C19 witness: the hash of a declaration of MaxParams parameters with
\* destination declared address and a numeric field.
C19_Witness ==
    /\ hOut.fn = "struct_hash"
    /\ hOut.result.tag = "Ok"
    /\ Len(DeclaredParams(hOut.full)) = MaxParams
    /\ \E i, j \in 1..MaxParams :
           /\ DeclaredParams(hOut.full)[i] = <<"address", "destination">>
           /\ DeclaredParams(hOut.full)[j] = <<"uint32", "count">>

\* What the claim says the tuple of the multi-sig hash holds after the
\* type hash, for the parameters of the augmented preimage.
RECURSIVE ExpectedMultisigEntries(_, _, _, _, _)
ExpectedMultisigEntries(action, chain, user, outer, params) ==
    IF params = <<>> THEN <<>>
    ELSE (CASE Head(params) = <<"address", "payloadMultiSigUser">> -> AbiAddress(user)
            [] Head(params) = <<"address", "outerSigner">> -> AbiAddress(outer)
            [] OTHER -> ExpectedEntry(action, chain, Head(params)))
         \o ExpectedMultisigEntries(action, chain, user, outer, Tail(params))

\* The struct hash inside an EIP-712 digest made under the domain of chain.
StructHashIn(digest, chain) ==
    LET skip == 2 + Len(DomainHash("HyperliquidSignTransaction", "1",
                                   SignatureChainId(chain)))
    IN  SubSeq(Preimage(digest), skip + 1, Len(Preimage(digest)))

\* C20: the multi-sig hash of a user-signed action hashes the tuple of the
\* hash of the augmented preimage followed by one entry per parameter of
\* the augmented preimage, in order: payloadMultiSigUser and outerSigner
\* (declared address) as native address values, every other address field
\* still as the hash of its lower-case text.
C20_MultisigTuple ==
    (hOut.fn = "multisig_signing_hash" /\ hOut.result.tag = "Ok") =>
        LET augmented == BuildMultisigTypes(hOut.full)
        IN  Preimage(StructHashIn(hOut.result.val, hOut.meta.signing_chain))
                = Keccak256(TextOf(augmented.types))
                  \o ExpectedMultisigEntries(hOut.action, hOut.meta.signing_chain,
                                             hOut.user, hOut.outer, augmented.params)

\* C20 witness: the multi-sig hash of a declaration that names
\* hyperliquidChain and declares destination as address.
C20_Witness ==
    /\ hOut.fn = "multisig_signing_hash"
    /\ hOut.result.tag = "Ok"
    /\ \E i, j \in 1..Len(DeclaredParams(hOut.full)) :
           /\ DeclaredParams(hOut.full)[i] = <<"string", "hyperliquidChain">>
           /\ DeclaredParams(hOut.full)[j] = <<"address", "destination">>

----------------------------------------------------------------------------
\* C21: after PreparedAction::sign succeeded, the signer was asked for one
\* signature, over the digest of the PreparedAction, and the SignedAction
\* carries that signature with the action, nonce, vault address and expiry
\* of the PreparedAction and the chain it was prepared for; after the signer
\* failed, the error is SignatureFailure, there is no SignedAction and
\* nothing was signed.
C21_SignFrame ==
    /\ origin.how = "sign" =>
           /\ IsSome(signedAction)
           /\ ledger = <<[wallet |-> origin.wallet, digest |-> origin.prepared.signing_hash]>>
           /\ Unwrap(signedAction).signature
                  = SignHashSync(ledger, origin.wallet, origin.prepared.signing_hash)
           /\ Unwrap(signedAction).action = origin.prepared.action
           /\ Unwrap(signedAction).nonce = origin.prepared.nonce
           /\ Unwrap(signedAction).vault_address = origin.prepared.vault_address
           /\ Unwrap(signedAction).expires_after = origin.prepared.expires_after
           /\ Unwrap(signedAction).signing_chain = Some(origin.prepared.signing_chain)
           /\ origin.prepared.signing_chain = cfg.signing_chain
    /\ origin.how = "sign_failed" =>
           /\ origin.error = "SignatureFailure"
           /\ signedAction = None
           /\ preparedAction = None
           /\ ledger = <<>>

\* C21 witness: a SignedAction made by sign for Testnet, with a vault
\* address and an expiry.
C21_Witness ==
    /\ origin.how = "sign"
    /\ IsSome(signedAction)
    /\ Unwrap(signedAction).signing_chain = Some("Testnet")
    /\ IsSome(Unwrap(signedAction).vault_address)
    /\ IsSome(Unwrap(signedAction).expires_after)

----------------------------------------------------------------------------
\* The wire JSON that serializing the SignedAction produced.
Serialized ==
    /\ IsSome(signedAction)
    /\ IsSome(wireJson)
    /\ Unwrap(wireJson).from = "serialize"
    /\ Unwrap(wireJson).result.tag = "Ok"

\* C22: the wire action object of a signed L1 action has `type` equal to
\* the action type and a member named by the payload key that holds the
\* payload (evmUserModify for ToggleBigBlocks, setOpenInterestCaps with the
\* list of pairs for SetOpenInterestCaps).
C22_PayloadUnderKey ==
    (Serialized /\ ~IsUserSigned(Unwrap(signedAction).action.ty)) =>
        LET action == Unwrap(signedAction).action
            object == Unwrap(wireJson).result.val.action.v
        IN  /\ object["type"] = JStr(Ascii(ActionType(action.ty)))
            /\ PayloadKey(action.ty) \in DOMAIN object
            /\ object[PayloadKey(action.ty)] = ToValue(action)

\* C23: the wire action object of a signed user-signed action prepared for
\* a chain has hyperliquidChain equal to the chain's name; when the type
\* preimage names `time` it carries the action's nonce under `time` and has
\* no `nonce` member; from_json of that wire JSON gives an action whose
\* embedded nonce is the one the signed action has.
C23_TimeOnWire ==
    (Serialized /\ IsUserSigned(Unwrap(signedAction).action.ty)) =>
        LET action == Unwrap(signedAction).action
            object == Unwrap(wireJson).result.val.action.v
            chain == Unwrap(Unwrap(signedAction).signing_chain)
        IN  /\ "hyperliquidChain" \in DOMAIN object
            /\ object["hyperliquidChain"] = JStr(Ascii(chain))
            /\ UsesTime(action.ty) =>
                   /\ "time" \in DOMAIN object
                   /\ object["time"] = JNum(Unwrap(action.nonce))
                   /\ "nonce" \notin DOMAIN object
            /\ (IsSome(foreign) /\ Unwrap(foreign).from = "from_json"
                    /\ Unwrap(foreign).ty = action.ty) =>
                   /\ Unwrap(foreign).result.tag = "Ok"
                   /\ Unwrap(foreign).result.val.action.nonce = action.nonce
                   /\ IsSome(action.nonce)

\* C23 witness: a UsdSend prepared for Testnet, serialized and decoded again.
C23_Witness ==
    /\ Serialized
    /\ Unwrap(signedAction).action.ty = "UsdSend"
    /\ Unwrap(signedAction).signing_chain = Some("Testnet")
    /\ "time" \in DOMAIN Unwrap(wireJson).result.val.action.v
    /\ IsSome(foreign)
    /\ Unwrap(foreign).from = "from_json"
    /\ Unwrap(foreign).ty = "UsdSend"
    /\ Unwrap(foreign).result.tag = "Ok"

----------------------------------------------------------------------------
\* Decoding wire JSON (SpecWire): a SignedAction is at hand and can be
\* serialized; wire JSON arrives from outside, well formed or not, and is
\* decoded with from_json; what was decoded can be serialized again.

\* SignedAction values, with and without a signing chain.
WireSigned ==
    {[action |-> a, nonce |-> 1, signature |-> [r |-> 111, s |-> 222, v |-> parity],
      vault_address |-> None, expires_after |-> None, signing_chain |-> chain] :
        a \in {MkAction("ToggleBigBlocks", TRUE, <<>>, AddressZero, [m |-> 0, sc |-> 0], Some(1)),
               MkAction("SetOpenInterestCaps", FALSE, <<<<Ascii("ETH"), 1>>>>, AddressZero,
                        [m |-> 0, sc |-> 0], Some(1)),
               MkAction("UsdSend", FALSE, <<>>, RepeatByte(171), [m |-> 15, sc |-> 1], Some(1))},
        parity \in BOOLEAN,
        chain \in {None, Some("Testnet")}}

\* What the serializer writes for the SignedAction values with a chain.
Written ==
    {SerializeSignedAction(signed).val :
         signed \in {w \in WireSigned : IsSome(w.signing_chain)}}

\* Wire JSON j with v as its signature.v.
OtherV(j, v) == [j EXCEPT !.signature = JObj([j.signature.v EXCEPT !.v = v])]

\* Wire JSON that arrives: what the serializer writes, and the same with
\* another number as signature.v, without `type`, without the payload
\* member, or with the `type` of another action.
WireInputs ==
    LET Without(j, key) == [j EXCEPT !.action = JObj(JRemove(j.action.v, key))]
        Retyped(j, text) == [j EXCEPT !.action = JObj(JInsert(j.action.v, "type", JStr(text)))]
    IN  Written
        \cup {OtherV(j, JNum(n)) : j \in Written, n \in {0, 1, 26, 27, 28, 29}}
        \cup {Without(j, key) : j \in Written, key \in {"type", "setOpenInterestCaps"}}
        \cup {Retyped(j, Ascii(text)) : j \in Written, text \in {"evmUserModify", "perpDeploy"}}

\* Wire JSON that arrives with signature.v as a decimal string.
WireInputsTextV ==
    {OtherV(j, JStr(Digits(n))) : j \in Written, n \in {1, 27, 28, 29}}

WireInit ==
    /\ cfg = [vault_address |-> None, expires_after |-> None, signing_chain |-> "Mainnet"]
    /\ built = None
    /\ preparedAction = None
    /\ signedAction \in {Some(signed) : signed \in WireSigned}
    /\ origin = [how |-> "none"]
    /\ wireJson = None
    /\ foreign = None
    /\ ledger = <<>>
    /\ pinned = None
    /\ preparedEver = FALSE
    /\ SendIdle
    /\ NonceIdle
    /\ hAction = MkAction("Other", FALSE, <<>>, AddressZero, [m |-> 0, sc |-> 0], None)
    /\ hMeta = [nonce |-> 1, vault_address |-> None, expires_after |-> None,
                signing_chain |-> "Mainnet"]
    /\ hUser = RepeatByte(17)
    /\ hOuter = RepeatByte(171)
    /\ hClock = 1
    /\ hOut = NoCall
    /\ msPrev = None
    /\ msLast = None
    /\ tIn = <<>>
    /\ tOut = None

\* serde_json::to_string(&decoded) on the SignedAction from_json returned.
ReserializeDecoded ==
    /\ IsSome(foreign)
    /\ Unwrap(foreign).from = "from_json"
    /\ Unwrap(foreign).result.tag = "Ok"
    /\ Unwrap(wireJson).from = "received"
    /\ wireJson' = Some([from |-> "reserialize", received |-> Unwrap(wireJson).result.val,
                         result |-> SerializeSignedAction(Unwrap(foreign).result.val)])
    /\ UNCHANGED <<cfg, built, preparedAction, signedAction, origin, foreign, ledger,
                   pinned, preparedEver, hashVars, typeVars, sendVars, nonceVars>>

WireNext ==
    \/ CallSerialize
    \/ \E json \in WireInputs : ReceiveJson(json)
    \/ \E json \in WireInputsTextV : ReceiveJson(json)
    \/ \E ty \in L1Types \cup {"UsdSend"} : CallFromJson(ty)
    \/ ReserializeDecoded

SpecWire == WireInit /\ [][WireNext]_vars

\* The wire JSON from_json was given, where it arrived from outside.
Received ==
    IF Unwrap(wireJson).from = "reserialize" THEN Unwrap(wireJson).received
    ELSE Unwrap(wireJson).result.val

\* from_json::<T> was called on wire JSON that arrived from outside.
Decoded ==
    /\ IsSome(foreign)
    /\ Unwrap(foreign).from = "from_json"
    /\ Unwrap(wireJson).from \in {"received", "reserialize"}

\* C24: decoding a signature maps v = 27 to recovery bit 0 and v = 28 to
\* recovery bit 1, v being a number or a decimal string, and rejects every
\* other v, the raw bits 0 and 1 included: the result is an error.
C24_RecoveryIdNormalized ==
    (Decoded /\ DeserializeAction(Unwrap(foreign).ty, Received.action).tag = "Ok") =>
        LET member == Received.signature.v["v"]
            v == IF member.t = "num" THEN member.v ELSE DigitsVal(member.v)
            result == Unwrap(foreign).result
        IN  CASE v = 27 -> result.tag = "Ok" /\ result.val.signature.v = FALSE
              [] v = 28 -> result.tag = "Ok" /\ result.val.signature.v = TRUE
              [] OTHER -> result.tag = "Err"

\* C25: from_json::<T> returns an error when the wire action has no `type`
\* or a `type` other than T's action type, and when T's payload key differs
\* from its action type and the wire action has no member of that name;
\* what it returns on success is an action of type T read from wire JSON
\* written for an action of type T.
C25_TypeChecked ==
    Decoded =>
        LET ty == Unwrap(foreign).ty
            object == Received.action.v
            result == Unwrap(foreign).result
        IN  /\ ("type" \notin DOMAIN object) => result.tag = "Err"
            /\ ("type" \in DOMAIN object /\ object["type"] # JStr(Ascii(ActionType(ty)))) =>
                   result.tag = "Err"
            /\ (PayloadKey(ty) # ActionType(ty) /\ PayloadKey(ty) \notin DOMAIN object) =>
                   result.tag = "Err"
            /\ result.tag = "Ok" =>
                   /\ result.val.action.ty = ty
                   /\ \E signed \in WireSigned :
                          /\ signed.action.ty = ty
                          /\ IsSome(signed.signing_chain)
                          /\ Received.action = SerializeSignedAction(signed).val.action

\* C25 witness: from_json::<SetOpenInterestCaps> refused wire JSON whose
\* `type` is perpDeploy and that has no setOpenInterestCaps member.
C25_Witness ==
    /\ Decoded
    /\ Unwrap(foreign).ty = "SetOpenInterestCaps"
    /\ "type" \in DOMAIN Received.action.v
    /\ Received.action.v["type"] = JStr(Ascii("perpDeploy"))
    /\ "setOpenInterestCaps" \notin DOMAIN Received.action.v
    /\ Unwrap(foreign).result.tag = "Err"

----------------------------------------------------------------------------
\* C26: the signing hash of a user-signed action is the same under every
\* SigningMeta of the same chain, whatever its nonce, vault address and
\* expiry, and another one under the other chain: the vault address and the
\* expiry of the envelope are not covered by the signature.
C26_MetaNotCovered ==
    (hOut.fn = "signing_hash" /\ IsUserSigned(hOut.action.ty)
         /\ hOut.result.tag = "Ok") =>
        \A meta \in Metas :
            IF meta.signing_chain = hOut.meta.signing_chain
            THEN SigningHash(hOut.action, meta) = hOut.result
            ELSE SigningHash(hOut.action, meta) # hOut.result

\* C26 witness: the signing hash of a UsdSend under metadata with a vault
\* address, an expiry and a nonce other than the embedded one.
C26_Witness ==
    /\ hOut.fn = "signing_hash"
    /\ hOut.action.ty = "UsdSend"
    /\ hOut.result.tag = "Ok"
    /\ IsSome(hOut.meta.vault_address)
    /\ IsSome(hOut.meta.expires_after)
    /\ hOut.action.nonce # Some(hOut.meta.nonce)

\* C27: a SignedAction decoded by from_json has no signing chain;
\* serializing a SignedAction succeeds for every L1 action and, for a
\* user-signed action, exactly when its signing chain is set; serializing a
\* decoded user-signed SignedAction again is an error, and no user-signed
\* action is written without hyperliquidChain and signatureChainId.
C27_ChainNeededToSerialize ==
    /\ (IsSome(foreign) /\ Unwrap(foreign).from = "from_json"
            /\ Unwrap(foreign).result.tag = "Ok") =>
           Unwrap(foreign).result.val.signing_chain = None
    /\ (IsSome(wireJson) /\ Unwrap(wireJson).from = "serialize") =>
           (Unwrap(wireJson).result.tag = "Ok"
                <=> \/ ~IsUserSigned(Unwrap(signedAction).action.ty)
                    \/ IsSome(Unwrap(signedAction).signing_chain))
    /\ (IsSome(wireJson) /\ Unwrap(wireJson).from = "reserialize") =>
           (Unwrap(wireJson).result.tag = "Ok" <=> ~IsUserSigned(Unwrap(foreign).ty))
    /\ (IsSome(wireJson) /\ Unwrap(wireJson).from \in {"serialize", "reserialize"}
            /\ Unwrap(wireJson).result.tag = "Ok"
            /\ Unwrap(wireJson).result.val.action.v["type"] = JStr(Ascii("usdSend"))) =>
           {"hyperliquidChain", "signatureChainId"}
               \subseteq DOMAIN Unwrap(wireJson).result.val.action.v

\* C27 witness: a UsdSend decoded by from_json was serialized again, which
\* failed.
C27_Witness ==
    /\ IsSome(wireJson)
    /\ Unwrap(wireJson).from = "reserialize"
    /\ Unwrap(foreign).ty = "UsdSend"
    /\ Unwrap(foreign).result.val.signing_chain = None
    /\ Unwrap(wireJson).result.tag = "Err"

----------------------------------------------------------------------------
\* Classifying and building ActionKind values (SpecKind): every variant is
\* asked for is_l1_action, extract_eip712_hash and extract_timestamp; the
\* kinds whose hash is modelled are built.

\* ActionKind values that are built: PerpDeploy, and the typed requests
\* with their time or nonce.
BuildableKinds ==
    {[kind |-> "PerpDeploy", caps |-> c] : c \in {<<>>, <<<<Ascii("ETH"), 1>>>>}}
    \cup {UsdcTransferRequest([is_mainnet |-> FALSE], DecimalToString([m |-> 15, sc |-> 1]),
                              RepeatByte(171), n) : n \in Nonces}
    \cup {[kind |-> v, signature_chain_id |-> 421614, time |-> n] :
              v \in {"Withdraw3", "SpotSend"}, n \in Nonces}
    \cup {[kind |-> v, signature_chain_id |-> 421614, nonce |-> n] :
              v \in {"ApproveAgent", "ApproveBuilderFee", "SendAsset"}, n \in Nonces}

\* One value at least of every variant.
KindValues ==
    BuildableKinds \cup {[kind |-> v] : v \in ActionKindVariants \ {b.kind : b \in BuildableKinds}}

\* kind.is_l1_action(), kind.extract_eip712_hash(), kind.extract_timestamp()
CallClassify(k) ==
    /\ hOut' = [fn |-> "classify", kind |-> k, is_l1_action |-> IsL1Action(k),
                eip712_hash |-> ExtractEip712Hash(k), timestamp |-> ExtractTimestamp(k)]
    /\ UNCHANGED <<hAction, hMeta, hUser, hOuter, hClock, msPrev, msLast, tIn, tOut,
                   lifeVars, sendVars, nonceVars>>

KindNext ==
    \/ Tick
    \/ \E k \in KindValues : CallClassify(k)
    \/ \E k \in BuildableKinds : CallBuild(k)

SpecKind == SendInit /\ [][KindNext]_vars

\* C28: each of the 19 variants of ActionKind is either one of the 13 L1
\* kinds, for which is_l1_action is true, or a kind for which
\* extract_eip712_hash and extract_timestamp both succeed; build returns an
\* Action for every kind, with L1 signing data for an L1 kind, with
\* typed-data signing data and the request's own time or nonce for the
\* others.
C28_ClassificationTotal ==
    /\ Cardinality(ActionKindVariants) = 19
    /\ {k.kind : k \in KindValues} = ActionKindVariants
    /\ hOut.fn = "classify" =>
           /\ hOut.kind.kind \in ActionKindVariants
           /\ hOut.is_l1_action
                  <=> hOut.kind.kind \in
                          {"Order", "Cancel", "CancelByCloid", "BatchModify",
                           "UpdateLeverage", "UpdateIsolatedMargin", "SpotUser",
                           "VaultTransfer", "SetReferrer", "EvmUserModify",
                           "ScheduleCancel", "ClaimRewards", "PerpDeploy"}
           /\ ~hOut.is_l1_action =>
                  /\ hOut.eip712_hash.tag = "Ok"
                  /\ IsSome(hOut.timestamp)
    /\ IsSome(lAction) =>
           LET action == Unwrap(lAction)
           IN  /\ "signing_data" \in DOMAIN action
               /\ IF IsL1Action(action.action)
                  THEN action.signing_data.tag = "L1"
                  ELSE /\ action.signing_data.tag = "TypedData"
                       /\ action.nonce = IF "time" \in DOMAIN action.action
                                         THEN action.action.time
                                         ELSE action.action.nonce

\* C28 witness: a SendAsset built while the clock reads another value than
\* the nonce the request carries.
C28_Witness ==
    /\ IsSome(lAction)
    /\ "signing_data" \in DOMAIN Unwrap(lAction)
    /\ Unwrap(lAction).action.kind = "SendAsset"
    /\ Unwrap(lAction).action.nonce # hClock
    /\ Unwrap(lAction).signing_data.tag = "TypedData"

----------------------------------------------------------------------------
\* requests::PerpDeploy on the wire (SpecPerp): a PerpDeploy value is a
\* variant with the list of a flatten_vec variant or, for the other
\* variants, a struct of which the string field dex (coin for HaltTrading)
\* is kept.

\* Each variant with the member that Serialize for PerpDeploy writes it under.
PerpDeployField ==
    [RegisterAsset |-> "registerAsset", SetOracle |-> "setOracle",
     SetFundingMultipliers |-> "setFundingMultipliers",
     SetFundingInterestRates |-> "setFundingInterestRates",
     HaltTrading |-> "haltTrading", SetMarginTableIds |-> "setMarginTableIds",
     SetFeeRecipient |-> "setFeeRecipient", SetOpenInterestCaps |-> "setOpenInterestCaps",
     InsertMarginTable |-> "insertMarginTable", SetSubDeployers |-> "setSubDeployers",
     SetGrowthModes |-> "setGrowthModes"]

\* flatten_vec!(SetMarginTableIds, ids) and the three others.
FlattenVec ==
    {"SetMarginTableIds", "SetOpenInterestCaps", "SetFundingInterestRates", "SetGrowthModes"}

\* Serialize for PerpDeploy
SerializePerpDeploy(p) ==
    JObj(JInsert([type |-> JStr(Ascii("perpDeploy"))], PerpDeployField[p.variant],
                 IF p.variant \in FlattenVec THEN JArr(SortCaps(p.list))
                 ELSE JObj([dex |-> JStr(p.dex)])))

\* The members visit_map of Deserialize for PerpDeploy has an arm for, with
\* the variant each gives, in the order the result is picked.
PerpDeployArms ==
    <<<<"registerAsset", "RegisterAsset">>, <<"setOracle", "SetOracle">>,
      <<"setFundingMultipliers", "SetFundingMultipliers">>,
      <<"haltTrading", "HaltTrading">>, <<"setMarginTableIds", "SetMarginTableIds">>,
      <<"setFeeRecipient", "SetFeeRecipient">>,
      <<"setOpenInterestCaps", "SetOpenInterestCaps">>,
      <<"insertMarginTable", "InsertMarginTable">>,
      <<"setSubDeployers", "SetSubDeployers">>, <<"setGrowthModes", "SetGrowthModes">>>>

\* Deserialize for PerpDeploy: every member with an arm is read, the others
\* are ignored; `type`, when present, must be perpDeploy; the first arm
\* whose member was present gives the variant.
DeserializePerpDeploy(value) ==
    LET present == {i \in 1..Len(PerpDeployArms) : PerpDeployArms[i][1] \in DOMAIN value.v}
        Readable(i) ==
            IF PerpDeployArms[i][2] \in FlattenVec
            THEN value.v[PerpDeployArms[i][1]].t = "arr"
            ELSE /\ value.v[PerpDeployArms[i][1]].t = "obj"
                 /\ "dex" \in DOMAIN value.v[PerpDeployArms[i][1]].v
        first == CHOOSE i \in present : \A j \in present : i <= j
    IN  IF value.t # "obj" THEN Err("invalid type: expected a perpDeploy action")
        ELSE IF \E i \in present : ~Readable(i) THEN Err("invalid member")
        ELSE IF "type" \in DOMAIN value.v /\ value.v["type"].t # "str"
        THEN Err("invalid type: expected a string")
        ELSE IF "type" \in DOMAIN value.v /\ value.v["type"].v # Ascii("perpDeploy")
        THEN Err("invalid value: expected perpDeploy")
        ELSE IF present = {} THEN Err("missing field: one of the perpDeploy action fields")
        ELSE Ok([variant |-> PerpDeployArms[first][2],
                 list |-> IF PerpDeployArms[first][2] \in FlattenVec
                          THEN value.v[PerpDeployArms[first][1]].v ELSE <<>>,
                 dex |-> IF PerpDeployArms[first][2] \in FlattenVec THEN <<>>
                         ELSE value.v[PerpDeployArms[first][1]].v["dex"].v])

\* PerpDeploy values of every variant.
PerpDeployValues ==
    {[variant |-> v, list |-> c, dex |-> <<>>] : v \in FlattenVec, c \in CapLists}
    \cup {[variant |-> v, list |-> <<>>, dex |-> Ascii(d)] :
              v \in DOMAIN PerpDeployField \ FlattenVec, d \in {"ETH", "BTC"}}

\* serde_json::to_value(&perp_deploy)
CallSerializePerpDeploy(p) ==
    /\ hOut' = [fn |-> "PerpDeploy::serialize", value |-> p,
                result |-> SerializePerpDeploy(p)]
    /\ UNCHANGED <<hAction, hMeta, hUser, hOuter, hClock, msPrev, msLast, tIn, tOut,
                   lifeVars, sendVars, nonceVars>>

\* serde_json::from_value::<PerpDeploy>(json) on what was serialized.
CallDeserializePerpDeploy ==
    /\ hOut.fn = "PerpDeploy::serialize"
    /\ hOut' = [fn |-> "PerpDeploy::deserialize", value |-> hOut.value,
                json |-> hOut.result, result |-> DeserializePerpDeploy(hOut.result)]
    /\ UNCHANGED <<hAction, hMeta, hUser, hOuter, hClock, msPrev, msLast, tIn, tOut,
                   lifeVars, sendVars, nonceVars>>

PerpNext ==
    \/ Tick
    \/ \E p \in PerpDeployValues : CallSerializePerpDeploy(p)
    \/ CallDeserializePerpDeploy

SpecPerp == NonceInit /\ [][PerpNext]_vars

\* C29: for every variant of PerpDeploy, deserializing what the serializer
\* wrote succeeds and gives the same variant.
C29_PerpDeployRoundTrip ==
    hOut.fn = "PerpDeploy::deserialize" =>
        /\ hOut.result.tag = "Ok"
        /\ hOut.result.val.variant = hOut.value.variant

----------------------------------------------------------------------------
\* The order of a flatten_vec list (checked under SpecHash).

\* Two lists of caps hold the same entries, each as many times.
IsPermutationOf(a, b) ==
    /\ Len(a) = Len(b)
    /\ \A e \in CapEntries :
           Cardinality({i \in 1..Len(a) : a[i] = e})
               = Cardinality({i \in 1..Len(b) : b[i] = e})

\* C30: when signing_hash has been taken of a SetOpenInterestCaps action,
\* every action whose caps are a permutation of its caps serializes to the
\* same MessagePack bytes, which hold the entries in sorted order, and gets
\* the same signing digest under the same metadata; and the action still
\* holds its caps in the order it held them before the call.
C30_SortedOnTheWire ==
    (hOut.fn = "signing_hash" /\ hOut.action.ty = "SetOpenInterestCaps") =>
        /\ \A c \in CapLists :
               IsPermutationOf(c, hOut.action.caps) =>
                   /\ RmpToVecNamed([hOut.action EXCEPT !.caps = c])
                          = RmpToVecNamed(hOut.action)
                   /\ SigningHash([hOut.action EXCEPT !.caps = c], hOut.meta)
                          = hOut.result
        /\ \A i \in 1..(Len(SortCaps(hOut.action.caps)) - 1) :
               CapLeq(SortCaps(hOut.action.caps)[i], SortCaps(hOut.action.caps)[i + 1])
        /\ RmpToVecNamed(hOut.action)
               = MpArrayHeader(Len(hOut.action.caps))
                     \o MpCapEntries(SortCaps(hOut.action.caps))
        /\ hAction = hOut.action

\* C30 witness: signing_hash was taken of a SetOpenInterestCaps action that
\* holds two different entries in an order that is not the sorted one, and
\* the action still holds them in that order.
C30_Witness ==
    /\ hOut.fn = "signing_hash"
    /\ hOut.action.ty = "SetOpenInterestCaps"
    /\ Len(hOut.action.caps) = 2
    /\ hOut.action.caps[1] # hOut.action.caps[2]
    /\ ~CapLeq(hOut.action.caps[1], hOut.action.caps[2])
    /\ hAction.caps = hOut.action.caps

============================================================================
